---- MODULE Spec2Model ----
(***************************************************************************)
(* Subscription reconciliation core of comms-backend:                      *)
(*   - AppStoreService.validateReceipt      (src/src/services/appstore.ts) *)
(*   - AppStoreService.handleWebhookNotification / processNotification     *)
(*   - DatabaseService                      (src/src/services/database.ts) *)
(*   - POST /api/webhooks/apple             (routes/webhooks.ts)           *)
(*                                                                         *)
(* In Spec every request handler is one atomic action.  A handled request *)
(* leaves its request, the outcomes of the store calls it made and its     *)
(* response in `last`, and the store as it was before the handler ran in   *)
(* `pre`; Reply sends the response and returns the server to idle.         *)
(* In SpecConcurrent the handlers run side by side and every store call is *)
(* a step of its own; the requests in progress are in `inflight`.          *)
(***************************************************************************)
EXTENDS Integers, FiniteSets, Sequences, Bags, TLC

VARIABLES
    now,            \* Date.now(), in abstract time units
    subscriptions,  \* rows of the `subscriptions` table
    profiles,       \* rows of the `profiles` table, by user_id
    last,           \* the request just handled and its response, or Idle
    pre,            \* the two tables as they were before that request
    inflight,       \* the requests being handled store call by store call
    storeTime,      \* the database server's clock, the default of created_at
    rateLimitByIP   \* the rate limiter's entry of each client IP, if any

vars ==
    <<now, subscriptions, profiles, last, pre, inflight, storeTime,
      rateLimitByIP>>

---------------------------------------------------------------------------
(* Bounds of the model *)

\* the clock runs over 1..MaxTime
MaxTime == 2

---------------------------------------------------------------------------
(* Values *)

\* JavaScript `undefined` of a string-typed field
Undefined == "undefined"

\* JavaScript truthiness of an optional string: undefined and "" are falsy
TruthyStr(s) == s # Undefined /\ s # ""

\* An optional number is <<>> (undefined) or <<n>>; undefined and 0 are falsy
TruthyNum(d) == d # <<>> /\ d[1] # 0

Times == 1..MaxTime

\* the addresses requests come from (req.ip)
ClientIPs == {"ip-1", "ip-2"}

Users == {"user-A", "user-B"}

TxIds == {"t1", "t2"}

SUBSCRIPTION_PRODUCTS ==
    { "com.comms.comms.premium_weekly",
      "com.comms.comms.premium_monthly",
      "com.comms.comms.premium_yearly" }

\* product identifiers that occur in requests and signed transactions:
\* one recognized subscription product and one that is not
ProductIds == {"com.comms.comms.premium_monthly", "com.comms.comms.lifetime"}

\* JWSTransactionDecodedPayload, the fields the code reads (each optional
\* in the library's type; expiresDate is <<>> when absent)
Transactions ==
    [ originalTransactionId : TxIds \cup {Undefined},
      productId             : ProductIds \cup {Undefined},
      expiresDate           : {<<>>} \cup {<<t>> : t \in Times},
      appAccountToken       : Users ]

\* Payloads carried by tokens whose signature does not verify: the ones that
\* would grant an entitlement if they were believed
ForgedPayloads ==
    { p \in Transactions :
        p.expiresDate = <<>> /\ p.productId \in SUBSCRIPTION_PRODUCTS }

\* A signed transaction (JWS): whether its signature and certificate chain
\* verify, and the payload it carries
SignedTransactions ==
    {[sigOK |-> TRUE, payload |-> p] : p \in Transactions}
        \cup {[sigOK |-> FALSE, payload |-> p] : p \in ForgedPayloads}

\* Date#toISOString of an epoch time
toISOString(t) == [iso8601 |-> t]

---------------------------------------------------------------------------
(* SignedDataVerifier (@apple/app-store-server-library) *)

\* verifyAndDecodeTransaction: the decoded payload, or an exception when the
\* signature, the chain or the online check fails
verifyAndDecodeTransaction(jws) ==
    IF jws.sigOK THEN [threw |-> FALSE, value |-> jws.payload]
                 ELSE [threw |-> TRUE]

---------------------------------------------------------------------------
(* DatabaseService *)

\* The store calls a handler can make; each may be refused by the store
StoreCalls == {"getSubscriptionByTransactionId", "insertSubscriptionRecord",
               "updateUserSubscriptionStatus",
               "setHasPurchasedSubscriptionBefore",
               "getActiveSubscriptions", "getUserProfile"}

\* Which calls the store accepts during one request
StoreOutcomes == [StoreCalls -> BOOLEAN]

\* (variant) an insert into a table that has no unique constraint on
\* transaction_id
insertUnconstrained(rows, row) ==
    [ rows  |-> rows \cup
                  {[ transaction_id |-> row.transaction_id,
                     user_id        |-> row.user_id,
                     product_id     |-> row.product_id,
                     expired        |-> FALSE,
                     created_at     |-> storeTime ]},
      error |-> "none" ]

\* (variant) an upsert done as delete-then-insert whose insert is lost when
\* a row was deleted
upsertDeleteThenInsert(rows, row) ==
    IF \E r \in rows : r.transaction_id = row.transaction_id
    THEN [ rows  |-> {r \in rows : r.transaction_id # row.transaction_id},
           error |-> "none" ]
    ELSE [ rows  |-> rows \cup
                       {[ transaction_id |-> row.transaction_id,
                          user_id        |-> row.user_id,
                          product_id     |-> row.product_id,
                          expired        |-> FALSE,
                          created_at     |-> storeTime ]},
           error |-> "none" ]

\* (variant) a plain .insert(row): a row with the same transaction_id is
\* refused by the unique constraint (SQLSTATE 23505)
plainInsert(rows, row) ==
    IF \E r \in rows : r.transaction_id = row.transaction_id
    THEN [rows |-> rows, error |-> "23505"]
    ELSE [ rows  |-> rows \cup
                       {[ transaction_id |-> row.transaction_id,
                          user_id        |-> row.user_id,
                          product_id     |-> row.product_id,
                          expired        |-> FALSE,
                          created_at     |-> storeTime ]},
           error |-> "none" ]

\* supabase .upsert(row, {onConflict: "transaction_id", ignoreDuplicates:
\* false}): a row with the same transaction_id takes the supplied columns and
\* keeps the others; otherwise the row is added with the column defaults
upsert(rows, row) ==
    IF \E r \in rows : r.transaction_id = row.transaction_id
    THEN [ rows  |-> { IF r.transaction_id = row.transaction_id
                       THEN [r EXCEPT !.user_id = row.user_id,
                                      !.product_id = row.product_id]
                       ELSE r : r \in rows },
           error |-> "none" ]
    ELSE [ rows  |-> rows \cup
                       {[ transaction_id |-> row.transaction_id,
                          user_id        |-> row.user_id,
                          product_id     |-> row.product_id,
                          expired        |-> FALSE,
                          created_at     |-> storeTime ]},
           error |-> "none" ]

\* insertSubscriptionRecord: the table after the call and what it returns
\* (data, or null after an error, which is logged)
insertSubscriptionRecord(rows, subscription, accepted) ==
    LET r == IF accepted THEN upsert(rows, subscription)
                         ELSE [rows |-> rows, error |-> "unavailable"]
    IN  [ rows   |-> r.rows,
          error  |-> r.error,
          result |-> IF r.error = "none" THEN "data" ELSE "null" ]

\* (variant) the flag flipped instead of set
updateStatusFlips(profs, userId, subscribed, accepted) ==
    IF accepted
    THEN [ profiles |-> [u \in DOMAIN profs |->
                            IF u = userId
                            THEN [profs[u] EXCEPT !.subscribed = ~@]
                            ELSE profs[u]],
           error |-> "none", result |-> TRUE ]
    ELSE [ profiles |-> profs, error |-> "unavailable", result |-> FALSE ]

\* (variant) the update without its .eq("id", userId) filter
updateStatusEveryRow(profs, userId, subscribed, accepted) ==
    IF accepted
    THEN [ profiles |-> [u \in DOMAIN profs |->
                            [profs[u] EXCEPT !.subscribed = subscribed]],
           error |-> "none", result |-> TRUE ]
    ELSE [ profiles |-> profs, error |-> "unavailable", result |-> FALSE ]

\* (variant) an update that also clears the purchase history when it
\* deactivates
updateStatusClearsHistory(profs, userId, subscribed, accepted) ==
    IF accepted
    THEN [ profiles |-> [u \in DOMAIN profs |->
                            IF u = userId
                            THEN [profs[u] EXCEPT
                                    !.subscribed = subscribed,
                                    !.has_purchased_subscription_before =
                                        @ /\ subscribed]
                            ELSE profs[u]],
           error |-> "none", result |-> TRUE ]
    ELSE [ profiles |-> profs, error |-> "unavailable", result |-> FALSE ]

\* updateUserSubscriptionStatus: update profiles set subscribed where user_id
updateUserSubscriptionStatus(profs, userId, subscribed, accepted) ==
    IF accepted
    THEN [ profiles |-> [u \in DOMAIN profs |->
                            IF u = userId
                            THEN [profs[u] EXCEPT !.subscribed = subscribed]
                            ELSE profs[u]],
           error |-> "none", result |-> TRUE ]
    ELSE [ profiles |-> profs, error |-> "unavailable", result |-> FALSE ]

\* (variant) the update matches no row
setHasPurchasedNoRow(profs, userId, accepted) ==
    IF accepted
    THEN [profiles |-> profs, error |-> "none", result |-> TRUE]
    ELSE [profiles |-> profs, error |-> "unavailable", result |-> FALSE]

\* setHasPurchasedSubscriptionBefore: update profiles set the flag to true
setHasPurchasedSubscriptionBefore(profs, userId, accepted) ==
    IF accepted
    THEN [ profiles |-> [u \in DOMAIN profs |->
                            IF u = userId
                            THEN [profs[u] EXCEPT
                                    !.has_purchased_subscription_before = TRUE]
                            ELSE profs[u]],
           error |-> "none", result |-> TRUE ]
    ELSE [ profiles |-> profs, error |-> "unavailable", result |-> FALSE ]

\* (variant) the query without its .eq("transaction_id", ...) filter
getSubscriptionUnfiltered(rows, transactionId, accepted) ==
    IF accepted /\ Cardinality(rows) = 1
    THEN <<CHOOSE r \in rows : TRUE>>
    ELSE <<>>

\* getSubscriptionByTransactionId: <<row>>, or <<>> (null) when there is no
\* such row (PGRST116) or the query fails
getSubscriptionByTransactionId(rows, transactionId, accepted) ==
    LET found == {r \in rows : r.transaction_id = transactionId}
    IN  IF accepted /\ Cardinality(found) = 1
        THEN <<CHOOSE r \in found : TRUE>>
        ELSE <<>>

\* getActiveSubscriptions: the user's rows ([] when the query fails)
getActiveSubscriptions(rows, userId, accepted) ==
    IF accepted THEN {r \in rows : r.user_id = userId} ELSE {}

\* getUserProfile: <<row>>, or <<>> (null) when .single() finds no row or
\* the query fails
getUserProfile(profs, userId, accepted) ==
    IF accepted /\ userId \in DOMAIN profs THEN <<profs[userId]>> ELSE <<>>

\* (variant) subscribed looked at before one_time_unlock
premiumSubscribedFirst(profs, userId, accepted) ==
    LET profile == getUserProfile(profs, userId, accepted) IN
    IF profile = <<>>
    THEN [isPremium |-> FALSE, reason |-> "User profile not found"]
    ELSE IF profile[1].subscribed
    THEN [isPremium |-> TRUE, reason |-> "Active subscription"]
    ELSE IF profile[1].one_time_unlock
    THEN [isPremium |-> TRUE, reason |-> "One-time unlock"]
    ELSE [isPremium |-> FALSE, reason |-> "No active premium access"]

\* getUserPremiumStatus(userId)
getUserPremiumStatus(profs, userId, accepted) ==
    LET profile == getUserProfile(profs, userId, accepted) IN
    IF profile = <<>>
    THEN [isPremium |-> FALSE, reason |-> "User profile not found"]
    ELSE IF profile[1].one_time_unlock
    THEN [isPremium |-> TRUE, reason |-> "One-time unlock"]
    ELSE IF profile[1].subscribed
    THEN [isPremium |-> TRUE, reason |-> "Active subscription"]
    ELSE [isPremium |-> FALSE, reason |-> "No active premium access"]

---------------------------------------------------------------------------
(* AppStoreService.validateReceipt *)

\* (variant) expiresDate >= now counts as active
isSubscriptionActiveInclusive(transaction, t) ==
    IF ~TruthyStr(transaction.productId)
          \/ transaction.productId \notin SUBSCRIPTION_PRODUCTS
    THEN FALSE
    ELSE IF TruthyNum(transaction.expiresDate)
         THEN transaction.expiresDate[1] >= t
         ELSE TRUE

\* isSubscriptionActive(transaction), with `new Date()` read as t
isSubscriptionActive(transaction, t) ==
    IF ~TruthyStr(transaction.productId)
          \/ transaction.productId \notin SUBSCRIPTION_PRODUCTS
    THEN FALSE
    ELSE IF TruthyNum(transaction.expiresDate)
         THEN transaction.expiresDate[1] > t
         ELSE TRUE

\* (variant) the ownership test left out
ownershipNotChecked(decodedTransaction, request) == FALSE

\* the ownership test: decodedTransaction.appAccountToken !== request.userId
ownershipMismatch(decodedTransaction, request) ==
    decodedTransaction.appAccountToken # request.userId

\* (variant) the subscription is stored whatever its activity
shouldStoreInactive(isActive, decodedTransaction) ==
    TruthyStr(decodedTransaction.originalTransactionId)

\* the condition under which validateReceipt stores the subscription
shouldStore(isActive, decodedTransaction) ==
    isActive /\ TruthyStr(decodedTransaction.originalTransactionId)

\* the three store calls validateReceipt makes for an active transaction;
\* their results are not read
storeValidated(request, decodedTransaction, rows, profs, db) ==
    LET subscriptionRecord ==
            [ user_id        |-> request.userId,
              product_id     |-> request.productId,
              transaction_id |-> decodedTransaction.originalTransactionId ]
        c1 == insertSubscriptionRecord(rows, subscriptionRecord,
                                       db["insertSubscriptionRecord"])
        c2 == updateUserSubscriptionStatus(profs, request.userId, TRUE,
                                       db["updateUserSubscriptionStatus"])
        c3 == setHasPurchasedSubscriptionBefore(c2.profiles, request.userId,
                                       db["setHasPurchasedSubscriptionBefore"])
    IN  [ subscriptions |-> c1.rows,
          profiles      |-> c3.profiles,
          calls         |-> << [call |-> "insertSubscriptionRecord",
                                error |-> c1.error],
                               [call |-> "updateUserSubscriptionStatus",
                                error |-> c2.error],
                               [call |-> "setHasPurchasedSubscriptionBefore",
                                error |-> c3.error] >> ]

\* (variant) the verifier's exception let through to the caller
receiptErrorRethrown == [threw |-> TRUE]

\* (variant) a verification failure reported as an inactive subscription
receiptErrorAsInactive ==
    [ success            |-> TRUE,
      subscriptionActive |-> FALSE,
      transactionId      |-> Undefined,
      expiresDate        |-> <<>>,
      error              |-> Undefined ]

\* what validateReceipt returns after the verifier threw: the inner catch
\* logs and falls through to the final return
receiptErrorResponse ==
    [ success            |-> FALSE,
      subscriptionActive |-> FALSE,
      transactionId      |-> Undefined,
      expiresDate        |-> <<>>,
      error              |-> "No receipt data provided" ]

\* A ValidationResponse that reports failure
validationFailure(message) ==
    [ success            |-> FALSE,
      subscriptionActive |-> FALSE,
      transactionId      |-> Undefined,
      expiresDate        |-> <<>>,
      error              |-> message ]

\* validateReceipt(request) at time t on the tables rows/profs, the store
\* answering as db says: the response, the tables afterwards, the store
\* calls made
validateReceipt(request, t, rows, profs, db) ==
    LET untouched(response) ==
            [ response |-> response, subscriptions |-> rows,
              profiles |-> profs, calls |-> <<>> ]
    IN
    IF request.purchaseToken = <<>>
    THEN untouched(validationFailure("No receipt data provided"))
    ELSE
    LET decoded == verifyAndDecodeTransaction(request.purchaseToken[1]) IN
    IF decoded.threw
    THEN untouched(receiptErrorResponse)
    ELSE
    LET decodedTransaction == decoded.value IN
    IF ownershipMismatch(decodedTransaction, request)
    THEN untouched(validationFailure(
                        "Transaction does not belong to this user"))
    ELSE
    LET isActive == isSubscriptionActive(decodedTransaction, t)
        response ==
            [ success            |-> TRUE,
              subscriptionActive |-> isActive,
              transactionId      |->
                  IF TruthyStr(decodedTransaction.originalTransactionId)
                  THEN decodedTransaction.originalTransactionId
                  ELSE Undefined,
              expiresDate        |->
                  IF TruthyNum(decodedTransaction.expiresDate)
                  THEN <<toISOString(decodedTransaction.expiresDate[1])>>
                  ELSE <<>>,
              error              |-> Undefined ]
    IN
    IF shouldStore(isActive, decodedTransaction)
    THEN LET w == storeValidated(request, decodedTransaction, rows, profs, db)
         IN  [ response |-> response, subscriptions |-> w.subscriptions,
               profiles |-> w.profiles, calls |-> w.calls ]
    ELSE untouched(response)

---------------------------------------------------------------------------
(* Notifications *)

NotificationTypes ==
    { "SUBSCRIBED", "DID_RENEW", "EXPIRED", "DID_FAIL_TO_RENEW",
      "DID_CHANGE_RENEWAL_STATUS", "REFUND", "DID_CHANGE_RENEWAL_PREF" }

\* The signed transactions that notifications embed.  The notification path
\* reads only originalTransactionId and productId of the transaction, so one
\* expiry and one account token stand for all.
NotifiedTransactions ==
    { j \in SignedTransactions :
        j.payload.expiresDate = <<>> /\ j.payload.appAccountToken = "user-A" }

\* responseBodyV2DecodedPayload, the fields the code reads; data without
\* signedTransactionInfo is <<>>
Notifications ==
    [ notificationType      : NotificationTypes,
      signedTransactionInfo : {<<>>} \cup {<<j>> : j \in NotifiedTransactions} ]

\* Payloads of envelopes whose signature does not verify: about a validly
\* signed transaction, so that they would take effect if they were believed
ForgedNotifications ==
    { n \in Notifications :
        /\ n.signedTransactionInfo # <<>>
        /\ n.signedTransactionInfo[1].sigOK
        /\ n.signedTransactionInfo[1].payload.originalTransactionId = "t1"
        /\ n.signedTransactionInfo[1].payload.productId
              \in SUBSCRIPTION_PRODUCTS }

\* A signedPayload (JWS) as the platform, or someone else, posts it
SignedNotifications ==
    {[sigOK |-> TRUE, payload |-> n] : n \in Notifications}
        \cup {[sigOK |-> FALSE, payload |-> n] : n \in ForgedNotifications}

\* Values of the signedPayload field of a parsed JSON body: absent, a
\* non-string value, or a string (<<>> is the empty string)
JsUndefined == [type |-> "undefined", chars |-> <<>>]
JsNumber == [type |-> "number", chars |-> <<>>]
JsObject == [type |-> "object", chars |-> <<>>]
JsString(chars) == [type |-> "string", chars |-> chars]

JsTruthy(v) ==
    \/ v.type \in {"number", "object"}
    \/ v.type = "string" /\ v.chars # <<>>

\* (variant) the envelope decoded without verifying its signature
decodeNotificationUnverified(signedPayload) ==
    IF signedPayload.type = "string" /\ signedPayload.chars # <<>>
    THEN [threw |-> FALSE, value |-> signedPayload.chars[1].payload]
    ELSE [threw |-> TRUE]

\* verifyAndDecodeNotification: the decoded payload, or an exception when the
\* argument is no JWS whose signature and chain verify
verifyAndDecodeNotification(signedPayload) ==
    IF signedPayload.type = "string" /\ signedPayload.chars # <<>>
          /\ signedPayload.chars[1].sigOK
    THEN [threw |-> FALSE, value |-> signedPayload.chars[1].payload]
    ELSE [threw |-> TRUE]

\* What a notification handler leaves: the tables and the store calls made
handled(rows, profs, calls) ==
    [subscriptions |-> rows, profiles |-> profs, calls |-> calls]

\* (variant) the purchase-history flag left out
handleSubscriptionActivatedFlagOnly(userId, transaction, rows, profs, db) ==
    LET c1 == updateUserSubscriptionStatus(profs, userId, TRUE,
                                       db["updateUserSubscriptionStatus"])
    IN  handled(rows, c1.profiles,
                << [call |-> "updateUserSubscriptionStatus",
                    error |-> c1.error],
                   [call |-> "setHasPurchasedSubscriptionBefore",
                    error |-> "none"] >>)

\* case "SUBSCRIBED"
handleSubscriptionActivated(userId, transaction, rows, profs, db) ==
    LET c1 == updateUserSubscriptionStatus(profs, userId, TRUE,
                                       db["updateUserSubscriptionStatus"])
        c2 == setHasPurchasedSubscriptionBefore(c1.profiles, userId,
                                       db["setHasPurchasedSubscriptionBefore"])
    IN  handled(rows, c2.profiles,
                << [call |-> "updateUserSubscriptionStatus",
                    error |-> c1.error],
                   [call |-> "setHasPurchasedSubscriptionBefore",
                    error |-> c2.error] >>)

\* (variant) the flag update left out
handleSubscriptionRenewedRecordOnly(userId, transaction, rows, profs, db) ==
    LET c1 == insertSubscriptionRecord(rows,
                      [ user_id        |-> userId,
                        product_id     |-> transaction.productId,
                        transaction_id |-> transaction.originalTransactionId ],
                      db["insertSubscriptionRecord"])
    IN  handled(c1.rows, profs,
                << [call |-> "insertSubscriptionRecord",
                    error |-> c1.error] >>)

\* case "DID_RENEW"
handleSubscriptionRenewed(userId, transaction, rows, profs, db) ==
    LET inserts == TruthyStr(transaction.originalTransactionId)
                      /\ TruthyStr(transaction.productId)
        c1 == IF inserts
              THEN insertSubscriptionRecord(rows,
                      [ user_id        |-> userId,
                        product_id     |-> transaction.productId,
                        transaction_id |-> transaction.originalTransactionId ],
                      db["insertSubscriptionRecord"])
              ELSE [rows |-> rows, error |-> "none", result |-> "null"]
        c2 == updateUserSubscriptionStatus(profs, userId, TRUE,
                                       db["updateUserSubscriptionStatus"])
    IN  handled(c1.rows, c2.profiles,
                (IF inserts
                 THEN << [call |-> "insertSubscriptionRecord",
                          error |-> c1.error] >>
                 ELSE << >>)
                \o << [call |-> "updateUserSubscriptionStatus",
                       error |-> c2.error] >>)

\* (variant) a previous-state check: an expiry that arrives while the user
\* is subscribed is taken for a delayed one and dropped
handleSubscriptionExpiredUnlessActive(userId, transaction, rows, profs, db) ==
    LET c1 == IF userId \in DOMAIN profs /\ profs[userId].subscribed
              THEN [profiles |-> profs, error |-> "none", result |-> TRUE]
              ELSE updateUserSubscriptionStatus(profs, userId, FALSE,
                                       db["updateUserSubscriptionStatus"])
    IN  handled(rows, c1.profiles,
                << [call |-> "updateUserSubscriptionStatus",
                    error |-> c1.error] >>)

\* case "EXPIRED", case "DID_FAIL_TO_RENEW"
handleSubscriptionExpired(userId, transaction, rows, profs, db) ==
    LET c1 == updateUserSubscriptionStatus(profs, userId, FALSE,
                                       db["updateUserSubscriptionStatus"])
    IN  handled(rows, c1.profiles,
                << [call |-> "updateUserSubscriptionStatus",
                    error |-> c1.error] >>)

\* (variant) auto-renewal turned off taken for a cancellation
handleRenewalStatusChangeCancels(userId, transaction, rows, profs, db) ==
    LET c1 == updateUserSubscriptionStatus(profs, userId, FALSE, TRUE)
    IN  handled(rows, c1.profiles, << >>)

\* case "DID_CHANGE_RENEWAL_STATUS": logs and notifies only
handleRenewalStatusChange(userId, transaction, rows, profs, db) ==
    handled(rows, profs, << >>)

\* (variant) a refund that leaves the entitlement
handleRefundKeepsAccess(userId, transaction, rows, profs, db) ==
    handled(rows, profs,
            << [call |-> "updateUserSubscriptionStatus", error |-> "none"] >>)

\* case "REFUND"
handleRefund(userId, transaction, rows, profs, db) ==
    LET c1 == updateUserSubscriptionStatus(profs, userId, FALSE,
                                       db["updateUserSubscriptionStatus"])
    IN  handled(rows, c1.profiles,
                << [call |-> "updateUserSubscriptionStatus",
                    error |-> c1.error] >>)

\* (variant) a switch whose default falls into the expired case
dispatchDefaultExpires(notificationType, userId, transaction, rows, profs, db) ==
    CASE notificationType = "SUBSCRIBED" ->
            handleSubscriptionActivated(userId, transaction, rows, profs, db)
      [] notificationType = "DID_RENEW" ->
            handleSubscriptionRenewed(userId, transaction, rows, profs, db)
      [] notificationType = "DID_CHANGE_RENEWAL_STATUS" ->
            handleRenewalStatusChange(userId, transaction, rows, profs, db)
      [] notificationType = "REFUND" ->
            handleRefund(userId, transaction, rows, profs, db)
      [] OTHER ->
            handled(rows,
                    updateUserSubscriptionStatus(profs, userId, FALSE, TRUE)
                        .profiles,
                    << >>)

\* the switch on notificationType
dispatch(notificationType, userId, transaction, rows, profs, db) ==
    CASE notificationType = "SUBSCRIBED" ->
            handleSubscriptionActivated(userId, transaction, rows, profs, db)
      [] notificationType = "DID_RENEW" ->
            handleSubscriptionRenewed(userId, transaction, rows, profs, db)
      [] notificationType \in {"EXPIRED", "DID_FAIL_TO_RENEW"} ->
            handleSubscriptionExpired(userId, transaction, rows, profs, db)
      [] notificationType = "DID_CHANGE_RENEWAL_STATUS" ->
            handleRenewalStatusChange(userId, transaction, rows, profs, db)
      [] notificationType = "REFUND" ->
            handleRefund(userId, transaction, rows, profs, db)
      [] OTHER -> handled(rows, profs, << >>)

\* the key processNotification looks the subscription up by
lookupKey(decodedTransaction) ==
    IF TruthyStr(decodedTransaction.originalTransactionId)
    THEN decodedTransaction.originalTransactionId
    ELSE ""

\* processNotification(notification): what it returns, the tables afterwards,
\* the store calls made
processNotification(notification, rows, profs, db) ==
    LET rejected(calls) ==
            [ success |-> FALSE, subscriptions |-> rows, profiles |-> profs,
              calls |-> calls ]
    IN
    IF notification.signedTransactionInfo = <<>>
    THEN rejected(<< >>)
    ELSE
    LET decoded == verifyAndDecodeTransaction(
                       notification.signedTransactionInfo[1]) IN
    IF decoded.threw
    THEN rejected(<< >>)
    ELSE
    LET decodedTransaction == decoded.value
        accepted == db["getSubscriptionByTransactionId"]
        existingSubscription ==
            getSubscriptionByTransactionId(rows, lookupKey(decodedTransaction),
                                           accepted)
        lookup == << [call  |-> "getSubscriptionByTransactionId",
                      error |-> IF accepted THEN "none" ELSE "unavailable"] >>
    IN
    IF existingSubscription = <<>>
    THEN rejected(lookup)
    ELSE
    LET h == dispatch(notification.notificationType,
                      existingSubscription[1].user_id, decodedTransaction,
                      rows, profs, db)
    IN  [ success |-> TRUE, subscriptions |-> h.subscriptions,
          profiles |-> h.profiles, calls |-> lookup \o h.calls ]

\* handleWebhookNotification(signedPayload)
handleWebhookNotification(signedPayload, rows, profs, db) ==
    LET decodedNotification == verifyAndDecodeNotification(signedPayload) IN
    IF decodedNotification.threw
    THEN [ success |-> FALSE, subscriptions |-> rows, profiles |-> profs,
           calls |-> << >> ]
    ELSE processNotification(decodedNotification.value, rows, profs, db)

---------------------------------------------------------------------------
(* POST /api/webhooks/apple *)

WebhookBodies ==
    [ signedPayload :
        {JsUndefined, JsNumber, JsString(<<>>)}
            \cup {JsString(<<sp>>) : sp \in SignedNotifications} ]

\* req.body.signedPayload || req.body
pickSignedPayload(body) ==
    IF JsTruthy(body.signedPayload) THEN body.signedPayload ELSE JsObject

\* (variant) the guard without its typeof test
invalidPayloadUntyped(signedPayload) == ~JsTruthy(signedPayload)

\* the guard that answers 400
invalidPayloadFormat(signedPayload) ==
    ~JsTruthy(signedPayload) \/ signedPayload.type # "string"

\* the status the route answers for what handleWebhookNotification returned
webhookStatus(success) == IF success THEN 200 ELSE 500

\* router.post("/apple"): the HTTP response, whether the service was called,
\* the tables afterwards and the store calls made
postApple(body, rows, profs, db) ==
    LET signedPayload == pickSignedPayload(body) IN
    IF invalidPayloadFormat(signedPayload)
    THEN [ response |-> [status |-> 400, success |-> FALSE],
           processed |-> FALSE,
           subscriptions |-> rows, profiles |-> profs, calls |-> << >> ]
    ELSE LET r == handleWebhookNotification(signedPayload, rows, profs, db)
         IN  [ response |-> [status  |-> webhookStatus(r.success),
                             success |-> r.success],
               processed |-> TRUE,
               subscriptions |-> r.subscriptions, profiles |-> r.profiles,
               calls |-> r.calls ]

---------------------------------------------------------------------------
(* /api/subscriptions/sync/:userId and /api/subscriptions/premium/:userId *)

\* What AppStoreServerAPIClient.getTransactionHistory answers: an exception,
\* or a page of signed transactions, of which the code reads the first
TransactionHistories ==
    {[threw |-> TRUE, signedTransactions |-> <<>>],
     [threw |-> FALSE, signedTransactions |-> <<>>]}
        \cup { [threw |-> FALSE, signedTransactions |-> <<j>>] :
                 j \in { k \in SignedTransactions :
                            /\ k.payload.originalTransactionId = "t1"
                            /\ k.payload.appAccountToken = "user-A"
                            /\ k.payload.productId \in ProductIds } }

\* getSubscriptionStatus(userId) at time t, the platform answering `history`
\* when it is asked
getSubscriptionStatus(userId, t, rows, accepted, history) ==
    LET inactive == [active |-> FALSE, expiresDate |-> <<>>]
        subscriptions_ == getActiveSubscriptions(rows, userId, accepted)
    IN
    IF subscriptions_ = {} THEN inactive
    ELSE IF history.threw THEN inactive
    ELSE IF history.signedTransactions = <<>> THEN inactive
    ELSE
    LET latestTransaction ==
            verifyAndDecodeTransaction(history.signedTransactions[1])
    IN  IF latestTransaction.threw THEN inactive
        ELSE [ active |-> isSubscriptionActive(latestTransaction.value, t),
               expiresDate |->
                   IF TruthyNum(latestTransaction.value.expiresDate)
                   THEN <<toISOString(latestTransaction.value.expiresDate[1])>>
                   ELSE <<>> ]

\* router.post("/sync/:userId"): the response, the profiles afterwards and
\* the store calls made
postSync(userId, t, rows, profs, db, history) ==
    LET status == getSubscriptionStatus(userId, t, rows,
                                        db["getActiveSubscriptions"], history)
        c1 == updateUserSubscriptionStatus(profs, userId, status.active,
                                           db["updateUserSubscriptionStatus"])
    IN  [ response |-> [ status |-> 200, success |-> TRUE,
                         subscriptionActive |-> status.active,
                         expiresDate |-> status.expiresDate ],
          profiles |-> c1.profiles,
          calls    |-> << [call  |-> "getActiveSubscriptions",
                           error |-> IF db["getActiveSubscriptions"]
                                     THEN "none" ELSE "unavailable"],
                          [call  |-> "updateUserSubscriptionStatus",
                           error |-> c1.error] >> ]

\* a user_id that has no row in profiles
NoProfileUser == "user-C"

\* router.get("/premium/:userId"): the response and the store call made
getPremium(userId, profs, db) ==
    LET status == getUserPremiumStatus(profs, userId, db["getUserProfile"])
    IN  [ response |-> [ status |-> 200, success |-> TRUE,
                         isPremium |-> status.isPremium,
                         reason |-> status.reason ],
          calls    |-> << [call  |-> "getUserProfile",
                           error |-> IF db["getUserProfile"]
                                     THEN "none" ELSE "unavailable"] >> ]

---------------------------------------------------------------------------
(* The server *)

ValidationRequests ==
    [ purchaseToken : {<<>>} \cup {<<j>> : j \in SignedTransactions},
      userId        : Users,
      productId     : ProductIds ]

Idle == [op |-> "idle"]

\* every store call accepted
AllAccepted == [c \in StoreCalls |-> TRUE]

\* The outcomes the store can give a request that makes the calls `names`
\* when every call is accepted: a call that is not made has no outcome
OutcomesOf(names) ==
    {[c \in StoreCalls |-> c \notin refused] : refused \in SUBSET names}

CallNames(calls) == {calls[i].call : i \in DOMAIN calls}

Tables == [subscriptions |-> subscriptions, profiles |-> profiles]

Init ==
    /\ now = 1
    /\ subscriptions = {}
    /\ profiles = [u \in Users |->
                      [ subscribed                        |-> FALSE,
                        has_purchased_subscription_before |-> FALSE,
                        one_time_unlock                   |-> FALSE ]]
    /\ last = Idle
    /\ pre = [subscriptions |-> {}, profiles |-> profiles]
    /\ inflight = EmptyBag
    /\ storeTime = 1
    /\ rateLimitByIP = [ip \in ClientIPs |-> << >>]

\* time passes between requests
Tick ==
    /\ last = Idle
    /\ now < MaxTime
    /\ now' = now + 1
    /\ UNCHANGED <<subscriptions, profiles, last, pre, inflight,
                   storeTime, rateLimitByIP>>

\* a validateReceipt(request) call, handled to its return; the store
\* accepts or refuses each call it makes
ValidateReceipt(request) ==
    /\ last = Idle
    /\ \E names \in {CallNames(validateReceipt(request, now, subscriptions,
                                               profiles, AllAccepted).calls)} :
       \E db \in OutcomesOf(names) :
       \E r \in {validateReceipt(request, now, subscriptions, profiles, db)} :
           /\ subscriptions' = r.subscriptions
           /\ profiles' = r.profiles
           /\ last' = [ op       |-> "validateReceipt",
                        request  |-> request,
                        time     |-> now,
                        calls    |-> r.calls,
                        response |-> r.response ]
    /\ pre' = Tables
    /\ UNCHANGED <<now, inflight, storeTime, rateLimitByIP>>

\* a POST /api/webhooks/apple request, handled to its response
PostApple(body) ==
    /\ last = Idle
    /\ \E names \in {CallNames(postApple(body, subscriptions, profiles,
                                         AllAccepted).calls)} :
       \E db \in OutcomesOf(names) :
       \E r \in {postApple(body, subscriptions, profiles, db)} :
           /\ subscriptions' = r.subscriptions
           /\ profiles' = r.profiles
           /\ last' = [ op        |-> "postApple",
                        request   |-> body,
                        processed |-> r.processed,
                        calls     |-> r.calls,
                        response  |-> r.response ]
    /\ pre' = Tables
    /\ UNCHANGED <<now, inflight, storeTime, rateLimitByIP>>

\* a POST /api/subscriptions/sync/:userId request, handled to its response
Sync(userId) ==
    /\ last = Idle
    /\ \E history \in TransactionHistories :
       \E db \in OutcomesOf({"getActiveSubscriptions",
                              "updateUserSubscriptionStatus"}) :
       \E r \in {postSync(userId, now, subscriptions, profiles, db, history)} :
           /\ profiles' = r.profiles
           /\ last' = [ op       |-> "postSync",
                        request  |-> [userId |-> userId, history |-> history],
                        time     |-> now,
                        calls    |-> r.calls,
                        response |-> r.response ]
    /\ pre' = Tables
    /\ UNCHANGED <<now, subscriptions, inflight, storeTime, rateLimitByIP>>

\* a GET /api/subscriptions/premium/:userId request, handled to its response
GetPremium(userId) ==
    /\ last = Idle
    /\ \E db \in OutcomesOf({"getUserProfile"}) :
       \E r \in {getPremium(userId, profiles, db)} :
           last' = [ op       |-> "getPremium",
                     request  |-> [userId |-> userId],
                     calls    |-> r.calls,
                     response |-> r.response ]
    /\ pre' = Tables
    /\ UNCHANGED <<now, subscriptions, profiles, inflight,
                   storeTime, rateLimitByIP>>

\* the response is sent
Reply ==
    /\ last # Idle
    /\ last' = Idle
    /\ pre' = Tables
    /\ UNCHANGED <<now, subscriptions, profiles, inflight,
                   storeTime, rateLimitByIP>>

Next ==
    \/ Tick
    \/ \E request \in ValidationRequests : ValidateReceipt(request)
    \/ \E body \in WebhookBodies : PostApple(body)
    \/ \E userId \in Users : Sync(userId)
    \/ \E userId \in Users \cup {NoProfileUser} : GetPremium(userId)
    \/ Reply

Spec == Init /\ [][Next]_vars

---------------------------------------------------------------------------
(* Deliveries one after another: the platform posts a notification as soon *)
(* as the last one was answered, the same one again or another.  `last`     *)
(* then also tells what came before: the delivery before this one, how many *)
(* times in a row the same notification was delivered, whether the store   *)
(* accepted every call of those deliveries, and the tables as the first of *)
(* them left them.                                                         *)

\* the same notification is delivered at most MaxDeliveries times in a row
MaxDeliveries == 3

\* the database server's clock runs over 1..MaxStoreTime
MaxStoreTime == 2

\* the rate limiter is followed until MaxWindows windows have expired
MaxWindows == 1

\* purchases of the subscription whose originalTransactionId is "t1"
DeliveryRequests ==
    { request \in ValidationRequests :
        /\ request.purchaseToken # <<>>
        /\ request.purchaseToken[1].sigOK
        /\ request.purchaseToken[1].payload.originalTransactionId = "t1"
        /\ request.purchaseToken[1].payload.productId \in SUBSCRIPTION_PRODUCTS
        /\ request.purchaseToken[1].payload.expiresDate = <<>> }

\* the platform's notifications about that subscription
DeliveryBodies ==
    { body \in WebhookBodies :
        /\ body.signedPayload.chars # <<>>
        /\ body.signedPayload.chars[1].sigOK
        /\ body.signedPayload.chars[1].payload.signedTransactionInfo # <<>>
        /\ LET j == body.signedPayload.chars[1].payload
                        .signedTransactionInfo[1]
           IN  /\ j.sigOK
               /\ j.payload.originalTransactionId = "t1"
               /\ j.payload.productId \in SUBSCRIPTION_PRODUCTS }

\* how many times in a row the last notification has been delivered
Streak == IF "streak" \in DOMAIN last THEN last.streak ELSE 1

\* whether the store accepted every call of those deliveries
StreakAccepted ==
    (\A i \in DOMAIN last.calls : last.calls[i].error = "none")
        /\ ("accepted" \in DOMAIN last => last.accepted)

\* the tables as the first of those deliveries left them
First == IF "first" \in DOMAIN last THEN last.first ELSE Tables

\* a POST /api/webhooks/apple request that follows another, handled to its
\* response
PostAppleNext(body) ==
    /\ last.op = "postApple"
    /\ body = last.request => Streak < MaxDeliveries
    /\ \E names \in {CallNames(postApple(body, subscriptions, profiles,
                                         AllAccepted).calls)} :
       \E db \in OutcomesOf(names) :
       \E r \in {postApple(body, subscriptions, profiles, db)} :
           /\ subscriptions' = r.subscriptions
           /\ profiles' = r.profiles
           /\ last' = [ op        |-> "postApple",
                        request   |-> body,
                        processed |-> r.processed,
                        calls     |-> r.calls,
                        response  |-> r.response,
                        previous  |-> [ request |-> last.request,
                                        calls   |-> last.calls ],
                        streak    |-> IF body = last.request
                                      THEN Streak + 1 ELSE 1,
                        accepted  |-> body = last.request => StreakAccepted,
                        first     |-> IF body = last.request
                                      THEN First
                                      ELSE [ subscriptions |-> r.subscriptions,
                                             profiles |-> r.profiles ] ]
    /\ pre' = Tables
    /\ UNCHANGED <<now, inflight, storeTime, rateLimitByIP>>

NextDeliveries ==
    \/ \E request \in DeliveryRequests : ValidateReceipt(request)
    \/ \E body \in DeliveryBodies : PostApple(body)
    \/ \E body \in DeliveryBodies : PostAppleNext(body)
    \/ Reply

SpecDeliveries == Init /\ [][NextDeliveries]_vars

---------------------------------------------------------------------------
(* Premium reads on every profile.  one_time_unlock is set by a flow       *)
(* outside this service, so the profiles start with any flags.             *)

ProfileRows ==
    [ subscribed                        : BOOLEAN,
      has_purchased_subscription_before : BOOLEAN,
      one_time_unlock                   : BOOLEAN ]

InitPremium ==
    /\ now = 1
    /\ subscriptions = {}
    /\ profiles \in [Users -> ProfileRows]
    /\ last = Idle
    /\ pre = [subscriptions |-> {}, profiles |-> profiles]
    /\ inflight = EmptyBag
    /\ storeTime = 1
    /\ rateLimitByIP = [ip \in ClientIPs |-> << >>]

NextPremium ==
    \/ \E userId \in Users \cup {NoProfileUser} : GetPremium(userId)
    \/ Reply

SpecPremium == InitPremium /\ [][NextPremium]_vars

---------------------------------------------------------------------------
(* Requests side by side.  A handler awaits each store call, and between  *)
(* two calls of one request any call of another may take place; a store   *)
(* call itself is atomic.  A request in progress is its input and the      *)
(* store calls it has still to make; here the store accepts every call.    *)

\* at most MaxInflight requests are in progress at a time
MaxInflight == 2

\* A store call still to be made, with its arguments
StoreOp(call, userId, subscribed, row) ==
    [call |-> call, userId |-> userId, subscribed |-> subscribed, row |-> row]

NoRow == [user_id |-> "", product_id |-> "", transaction_id |-> ""]

\* the store calls validateReceipt(request) makes at time t, in order
validateSteps(request, t) ==
    IF request.purchaseToken = <<>> THEN << >>
    ELSE
    LET decoded == verifyAndDecodeTransaction(request.purchaseToken[1]) IN
    IF decoded.threw THEN << >>
    ELSE IF ownershipMismatch(decoded.value, request) THEN << >>
    ELSE IF ~shouldStore(isSubscriptionActive(decoded.value, t), decoded.value)
    THEN << >>
    ELSE << StoreOp("insertSubscriptionRecord", "", FALSE,
                    [ user_id        |-> request.userId,
                      product_id     |-> request.productId,
                      transaction_id |-> decoded.value.originalTransactionId ]),
            StoreOp("updateUserSubscriptionStatus", request.userId, TRUE,
                    NoRow),
            StoreOp("setHasPurchasedSubscriptionBefore", request.userId, FALSE,
                    NoRow) >>

\* the transaction a webhook body's notification embeds, <<>> when the route
\* or a verification stops before the store is asked
embeddedTransaction(body) ==
    LET signedPayload == pickSignedPayload(body) IN
    IF invalidPayloadFormat(signedPayload) THEN << >>
    ELSE
    LET decodedNotification == verifyAndDecodeNotification(signedPayload) IN
    IF decodedNotification.threw THEN << >>
    ELSE IF decodedNotification.value.signedTransactionInfo = <<>> THEN << >>
    ELSE
    LET decoded == verifyAndDecodeTransaction(
                       decodedNotification.value.signedTransactionInfo[1])
    IN  IF decoded.threw THEN << >> ELSE <<decoded.value>>

\* the first store call of a webhook request: the lookup of the record
webhookSteps(body) ==
    IF embeddedTransaction(body) = << >> THEN << >>
    ELSE << StoreOp("getSubscriptionByTransactionId", "", FALSE,
                    [NoRow EXCEPT !.transaction_id =
                                      lookupKey(embeddedTransaction(body)[1])])
         >>

\* the store calls the switch on notificationType makes, in order
dispatchSteps(notificationType, userId, transaction) ==
    CASE notificationType = "SUBSCRIBED" ->
            << StoreOp("updateUserSubscriptionStatus", userId, TRUE, NoRow),
               StoreOp("setHasPurchasedSubscriptionBefore", userId, FALSE,
                       NoRow) >>
      [] notificationType = "DID_RENEW" ->
            (IF TruthyStr(transaction.originalTransactionId)
                   /\ TruthyStr(transaction.productId)
             THEN << StoreOp("insertSubscriptionRecord", "", FALSE,
                        [ user_id        |-> userId,
                          product_id     |-> transaction.productId,
                          transaction_id |-> transaction.originalTransactionId ])
                  >>
             ELSE << >>)
            \o << StoreOp("updateUserSubscriptionStatus", userId, TRUE,
                          NoRow) >>
      [] notificationType \in {"EXPIRED", "DID_FAIL_TO_RENEW", "REFUND"} ->
            << StoreOp("updateUserSubscriptionStatus", userId, FALSE, NoRow) >>
      [] OTHER -> << >>

\* A request in progress
InProgress(validation, body, todo) ==
    [validation |-> validation, body |-> body, todo |-> todo]

\* the requests in progress once p has the calls `rest` left: a request
\* with no call left has returned
Proceed(p, rest) ==
    (inflight (-) SetToBag({p}))
        (+) (IF rest = << >> THEN EmptyBag
                             ELSE SetToBag({[p EXCEPT !.todo = rest]}))

\* validateReceipt(request) is entered
BeginValidate(request) ==
    /\ BagCardinality(inflight) < MaxInflight
    /\ LET todo == validateSteps(request, now)
       IN  inflight' = IF todo = << >> THEN inflight
                       ELSE inflight
                              (+) SetToBag({InProgress(<<request>>, <<>>, todo)})
    /\ UNCHANGED <<now, subscriptions, profiles, last, pre,
                   storeTime, rateLimitByIP>>

\* POST /api/webhooks/apple is entered
BeginWebhook(body) ==
    /\ BagCardinality(inflight) < MaxInflight
    /\ LET todo == webhookSteps(body)
       IN  inflight' = IF todo = << >> THEN inflight
                       ELSE inflight
                              (+) SetToBag({InProgress(<<>>, <<body>>, todo)})
    /\ UNCHANGED <<now, subscriptions, profiles, last, pre,
                   storeTime, rateLimitByIP>>

\* the next store call of a request in progress
StoreStep(p) ==
    /\ p.todo # << >>
    /\ LET op == Head(p.todo) IN
       CASE op.call = "insertSubscriptionRecord" ->
              /\ subscriptions' =
                    insertSubscriptionRecord(subscriptions, op.row, TRUE).rows
              /\ inflight' = Proceed(p, Tail(p.todo))
              /\ UNCHANGED profiles
         [] op.call = "updateUserSubscriptionStatus" ->
              /\ profiles' =
                    updateUserSubscriptionStatus(profiles, op.userId,
                                                 op.subscribed, TRUE).profiles
              /\ inflight' = Proceed(p, Tail(p.todo))
              /\ UNCHANGED subscriptions
         [] op.call = "setHasPurchasedSubscriptionBefore" ->
              /\ profiles' =
                    setHasPurchasedSubscriptionBefore(profiles, op.userId,
                                                      TRUE).profiles
              /\ inflight' = Proceed(p, Tail(p.todo))
              /\ UNCHANGED subscriptions
         [] op.call = "getSubscriptionByTransactionId" ->
              LET existingSubscription ==
                      getSubscriptionByTransactionId(
                          subscriptions, op.row.transaction_id, TRUE)
                  notification == p.body[1].signedPayload.chars[1].payload
              IN  /\ inflight' =
                        Proceed(p,
                            IF existingSubscription = <<>> THEN << >>
                            ELSE dispatchSteps(notification.notificationType,
                                     existingSubscription[1].user_id,
                                     embeddedTransaction(p.body[1])[1]))
                  /\ UNCHANGED <<subscriptions, profiles>>
    /\ UNCHANGED <<now, last, pre, storeTime, rateLimitByIP>>

NextConcurrent ==
    \/ \E request \in DeliveryRequests : BeginValidate(request)
    \/ \E body \in DeliveryBodies : BeginWebhook(body)
    \/ \E p \in BagToSet(inflight) : StoreStep(p)

SpecConcurrent == Init /\ [][NextConcurrent]_vars

---------------------------------------------------------------------------
(* One request followed store call by store call, from any state that      *)
(* purchases and notifications of the subscription "t1" lead to: a         *)
(* notification delivered twice at the same time, or a request that its    *)
(* caller abandons and sends again.  `last` keeps the tables one           *)
(* uninterrupted run of the request leaves, to compare with.               *)

\* the tables after handling the webhook body in one go
afterPostApple(body) ==
    LET r == postApple(body, subscriptions, profiles, AllAccepted)
    IN  [subscriptions |-> r.subscriptions, profiles |-> r.profiles]

\* the tables after validateReceipt(request) in one go
afterValidateReceipt(request) ==
    LET r == validateReceipt(request, now, subscriptions, profiles,
                             AllAccepted)
    IN  [subscriptions |-> r.subscriptions, profiles |-> r.profiles]

\* the platform delivers the same notification twice at the same time
DeliverTwice(body) ==
    /\ last = Idle
    /\ inflight = EmptyBag
    /\ webhookSteps(body) # << >>
    /\ inflight' = SetToBag({InProgress(<<>>, <<body>>, webhookSteps(body))})
                      (+) SetToBag({InProgress(<<>>, <<body>>,
                                               webhookSteps(body))})
    /\ last' = [ op       |-> "postAppleTwice",
                 request  |-> body,
                 expected |-> afterPostApple(body) ]
    /\ pre' = Tables
    /\ UNCHANGED <<now, subscriptions, profiles, storeTime, rateLimitByIP>>

\* a validateReceipt(request) whose caller may go away
RunValidate(request) ==
    /\ last = Idle
    /\ inflight = EmptyBag
    /\ validateSteps(request, now) # << >>
    /\ inflight' = SetToBag({InProgress(<<request>>, <<>>,
                                        validateSteps(request, now))})
    /\ last' = [ op        |-> "abandonable",
                 fresh     |-> InProgress(<<request>>, <<>>,
                                          validateSteps(request, now)),
                 abandoned |-> << >>,
                 expected  |-> afterValidateReceipt(request) ]
    /\ pre' = Tables
    /\ UNCHANGED <<now, subscriptions, profiles, storeTime, rateLimitByIP>>

\* a webhook delivery whose caller may go away
RunWebhook(body) ==
    /\ last = Idle
    /\ inflight = EmptyBag
    /\ webhookSteps(body) # << >>
    /\ inflight' = SetToBag({InProgress(<<>>, <<body>>, webhookSteps(body))})
    /\ last' = [ op        |-> "abandonable",
                 fresh     |-> InProgress(<<>>, <<body>>, webhookSteps(body)),
                 abandoned |-> << >>,
                 expected  |-> afterPostApple(body) ]
    /\ pre' = Tables
    /\ UNCHANGED <<now, subscriptions, profiles, storeTime, rateLimitByIP>>

\* the caller abandons the request between two store calls: the writes made
\* stand, the calls left are not made, and the same request is sent again
AbandonAndRetry(p) ==
    /\ last.op = "abandonable"
    /\ last.abandoned = << >>
    /\ inflight' = SetToBag({last.fresh})
    /\ last' = [last EXCEPT !.abandoned = <<p.todo>>]
    /\ UNCHANGED <<now, subscriptions, profiles, pre,
                   storeTime, rateLimitByIP>>

\* the request, or both deliveries, have returned
Settle ==
    /\ inflight = EmptyBag
    /\ Reply

NextRaces ==
    \/ \E request \in DeliveryRequests : ValidateReceipt(request)
    \/ \E body \in DeliveryBodies : PostApple(body)
    \/ \E body \in DeliveryBodies : DeliverTwice(body)
    \/ \E request \in DeliveryRequests : RunValidate(request)
    \/ \E body \in DeliveryBodies : RunWebhook(body)
    \/ \E p \in BagToSet(inflight) : StoreStep(p)
    \/ \E p \in BagToSet(inflight) : AbandonAndRetry(p)
    \/ Settle

SpecRaces == Init /\ [][NextRaces]_vars

---------------------------------------------------------------------------
(* A validateReceipt of the owner of the recorded subscription "t1" in     *)
(* flight together with a notification that revokes it.  Nothing else      *)
(* starts until both have returned.                                        *)

\* the notifications that end the subscription
RevokingBodies ==
    { body \in DeliveryBodies :
        body.signedPayload.chars[1].payload.notificationType
            \in {"EXPIRED", "REFUND"} }

\* validateReceipt(request) of the record's owner and the delivery of a
\* revoking notification are both entered
Overlap(request, body) ==
    /\ last = Idle
    /\ inflight = EmptyBag
    /\ \E r \in subscriptions :
           r.transaction_id = "t1" /\ r.user_id = request.userId
    /\ validateSteps(request, now) # << >>
    /\ inflight' = SetToBag({InProgress(<<request>>, <<>>,
                                        validateSteps(request, now))})
                      (+) SetToBag({InProgress(<<>>, <<body>>,
                                               webhookSteps(body))})
    /\ last' = [ op      |-> "overlap",
                 request |-> request,
                 body    |-> body ]
    /\ pre' = Tables
    /\ UNCHANGED <<now, subscriptions, profiles, storeTime, rateLimitByIP>>

NextOverlap ==
    \/ \E request \in DeliveryRequests : ValidateReceipt(request)
    \/ \E body \in DeliveryBodies : PostApple(body)
    \/ \E request \in DeliveryRequests :
           \E body \in RevokingBodies : Overlap(request, body)
    \/ \E p \in BagToSet(inflight) : StoreStep(p)
    \/ Settle

SpecOverlap == Init /\ [][NextOverlap]_vars

---------------------------------------------------------------------------
(* The subscription history of a user, read while purchases of two         *)
(* subscriptions and notifications are handled and the database server's   *)
(* clock advances between them.                                            *)

\* the sequences that list each row of `found` once
Listings(found) ==
    { list \in [1..Cardinality(found) -> found] :
        \A i, j \in DOMAIN list : i # j => list[i] # list[j] }

\* (variant) .order("created_at", {ascending: true})
orderAscending(found) ==
    { list \in Listings(found) :
        \A i, j \in DOMAIN list :
            i < j => list[i].created_at <= list[j].created_at }

\* .order("created_at", {ascending: false}): the orders the database may
\* return the rows in; rows of equal created_at come in either order
orderDescending(found) ==
    { list \in Listings(found) :
        \A i, j \in DOMAIN list :
            i < j => list[i].created_at >= list[j].created_at }

\* router.get("/history/:userId"), the database returning `data`
getHistory(data) ==
    [ status        |-> 200,
      success       |-> TRUE,
      subscriptions |-> [ i \in DOMAIN data |->
                            [ productId     |-> data[i].product_id,
                              transactionId |-> data[i].transaction_id,
                              createdAt     |-> data[i].created_at ] ] ]

\* a GET /api/subscriptions/history/:userId request, handled to its response
GetHistory(userId) ==
    /\ last = Idle
    /\ \E db \in OutcomesOf({"getActiveSubscriptions"}) :
       \E data \in orderDescending(
                     getActiveSubscriptions(subscriptions, userId,
                                            db["getActiveSubscriptions"])) :
           last' = [ op       |-> "getHistory",
                     request  |-> [userId |-> userId],
                     calls    |-> << [call  |-> "getActiveSubscriptions",
                                      error |-> IF db["getActiveSubscriptions"]
                                                THEN "none"
                                                ELSE "unavailable"] >>,
                     response |-> getHistory(data) ]
    /\ pre' = Tables
    /\ UNCHANGED <<now, subscriptions, profiles, inflight, storeTime,
                   rateLimitByIP>>

\* the database server's clock advances between requests
TickStore ==
    /\ last = Idle
    /\ storeTime < MaxStoreTime
    /\ storeTime' = storeTime + 1
    /\ UNCHANGED <<now, subscriptions, profiles, last, pre, inflight,
                   rateLimitByIP>>

\* purchases of the recognized product, signed and without expiry
PurchaseRequests ==
    { request \in ValidationRequests :
        /\ request.purchaseToken # <<>>
        /\ request.purchaseToken[1].sigOK
        /\ request.purchaseToken[1].payload.originalTransactionId \in TxIds
        /\ request.purchaseToken[1].payload.productId \in SUBSCRIPTION_PRODUCTS
        /\ request.purchaseToken[1].payload.expiresDate = <<>>
        /\ request.productId \in SUBSCRIPTION_PRODUCTS }

NextHistory ==
    \/ TickStore
    \/ \E request \in PurchaseRequests : ValidateReceipt(request)
    \/ \E body \in DeliveryBodies : PostApple(body)
    \/ \E userId \in Users : GetHistory(userId)
    \/ Reply

SpecHistory == Init /\ [][NextHistory]_vars

---------------------------------------------------------------------------
(* The rate limiter, the last middleware before the routes.  Date.now() is *)
(* in milliseconds here; between requests either a whole window passes, so *)
(* that a request can come at the very millisecond an entry's resetTime    *)
(* names, or a millisecond more.  `last` carries, for each address, the     *)
(* window the specification speaks of: the time of the first request       *)
(* counted and the number of requests passed on since.                     *)

\* simpleRateLimit(100, 15 * 60 * 1000) in Server.setupMiddleware
maxRequests == 100

windowMs == 900000

\* the 429 response of the rate limiter
tooManyRequests ==
    [status |-> 429, success |-> FALSE, error |-> "Too many requests"]

\* (variant) the limit compared with > instead of >=
simpleRateLimitOffByOne(max, window, entries, ip, t) ==
    LET cleaned == [k \in DOMAIN entries |->
                       IF entries[k] # << >> /\ t > entries[k][1].resetTime
                       THEN << >> ELSE entries[k]]
        current == cleaned[ip]
        fresh   == [cleaned EXCEPT
                       ![ip] = <<[count |-> 1, resetTime |-> t + window]>>]
    IN  IF current = << >> THEN [next |-> TRUE, entries |-> fresh]
        ELSE IF current[1].count > max
             THEN [next |-> FALSE, entries |-> cleaned]
        ELSE [ next    |-> TRUE,
               entries |-> [cleaned EXCEPT ![ip][1].count = @ + 1] ]

\* (variant) the clean-up loop left out
simpleRateLimitNoCleanup(max, window, entries, ip, t) ==
    LET current == entries[ip]
        fresh   == [entries EXCEPT
                       ![ip] = <<[count |-> 1, resetTime |-> t + window]>>]
    IN  IF current = << >> THEN [next |-> TRUE, entries |-> fresh]
        ELSE IF t > current[1].resetTime
             THEN [next |-> TRUE, entries |-> fresh]
        ELSE IF current[1].count >= max
             THEN [next |-> FALSE, entries |-> entries]
        ELSE [ next    |-> TRUE,
               entries |-> [entries EXCEPT ![ip][1].count = @ + 1] ]

\* the middleware simpleRateLimit(max, window) returns, for a request from
\* `ip` at time t: whether next() is called, and the map afterwards
simpleRateLimit(max, window, entries, ip, t) ==
    LET cleaned == [k \in DOMAIN entries |->
                       IF entries[k] # << >> /\ t > entries[k][1].resetTime
                       THEN << >> ELSE entries[k]]
        current == cleaned[ip]
        fresh   == [cleaned EXCEPT
                       ![ip] = <<[count |-> 1, resetTime |-> t + window]>>]
    IN  IF current = << >> THEN [next |-> TRUE, entries |-> fresh]
        ELSE IF t > current[1].resetTime
             THEN [next |-> TRUE, entries |-> fresh]
        ELSE IF current[1].count >= max
             THEN [next |-> FALSE, entries |-> cleaned]
        ELSE [ next    |-> TRUE,
               entries |-> [cleaned EXCEPT ![ip][1].count = @ + 1] ]

\* the windows of the addresses before the last request
Windows ==
    IF "windows" \in DOMAIN last THEN last.windows
    ELSE [ip \in ClientIPs |-> << >>]

\* the windows after a request from `ip` at time t was passed on: it is
\* counted in the window it falls into, or it starts a window
counted(windows, ip, t) ==
    IF windows[ip] # << >> /\ t <= windows[ip][1].start + windowMs
    THEN [windows EXCEPT ![ip][1].passed = @ + 1]
    ELSE [windows EXCEPT ![ip] = <<[start |-> t, passed |-> 1]>>]

\* a request from `ip` reaches the rate limiter
Request(ip) ==
    /\ \E r \in {simpleRateLimit(maxRequests, windowMs, rateLimitByIP, ip,
                                  now)} :
           /\ rateLimitByIP' = r.entries
           /\ last' = [ op       |-> "request",
                        ip       |-> ip,
                        time     |-> now,
                        before   |-> Windows,
                        windows  |-> IF r.next THEN counted(Windows, ip, now)
                                     ELSE Windows,
                        passedOn |-> r.next,
                        response |-> IF r.next THEN [status |-> 200]
                                     ELSE [status |-> tooManyRequests.status]
                      ]
    /\ UNCHANGED <<now, subscriptions, profiles, pre, inflight, storeTime>>

\* a window, or a window and a millisecond, passes
Elapse(d) ==
    /\ now + d <= 1 + MaxWindows * (windowMs + 1)
    /\ now' = now + d
    /\ UNCHANGED <<subscriptions, profiles, last, pre, inflight, storeTime,
                   rateLimitByIP>>

NextRateLimit ==
    \/ \E ip \in ClientIPs : Request(ip)
    \/ \E d \in {windowMs, windowMs + 1} : Elapse(d)

SpecRateLimit == Init /\ [][NextRateLimit]_vars

---------------------------------------------------------------------------
(* The /api/subscriptions router behind the rate limiter: requests of one  *)
(* address with and without the API key, on every route of the router.    *)

\* config.security.apiKey
configuredApiKey == "api-key"

\* what a request carries in its x-api-key header
ApiKeys == {Undefined, "", "wrong-key", configuredApiKey}

\* the 401 response of authenticateAPI
unauthorized ==
    [status |-> 401, success |-> FALSE, error |-> "Unauthorized"]

\* (variant) any key that is present is accepted
authenticateAnyKey(apiKey) == TruthyStr(apiKey)

\* authenticateAPI: whether next() is called
authenticateAPI(apiKey) ==
    ~(~TruthyStr(apiKey) \/ apiKey # configuredApiKey)

\* the routes of the router
SubscriptionRoutes == {"validate", "status", "history", "sync", "premium"}

\* the purchase the validate requests of this part carry
OwnedPurchases ==
    { request \in DeliveryRequests :
        /\ request.userId = "user-A"
        /\ request.purchaseToken[1].payload.appAccountToken = "user-A"
        /\ request.productId = request.purchaseToken[1].payload.productId }

\* the requests: a validate request has a body, the others name the user
SubscriptionRequests ==
    { [route |-> "validate", apiKey |-> k, userId |-> b.userId,
       body |-> <<b>>] : k \in ApiKeys, b \in OwnedPurchases }
      \cup
    { [route |-> r, apiKey |-> k, userId |-> "user-A", body |-> << >>] :
        r \in SubscriptionRoutes \ {"validate"}, k \in ApiKeys }

\* the platform has no transaction to report
NoHistory == [threw |-> FALSE, signedTransactions |-> <<>>]

\* router.get("/status/:userId"): the response and the store calls made
getStatus(userId, t, rows, profs, db, history) ==
    LET premiumStatus  == getUserPremiumStatus(profs, userId,
                                               db["getUserProfile"])
        appStoreStatus == getSubscriptionStatus(userId, t, rows,
                              db["getActiveSubscriptions"], history)
    IN  [ response |-> [ status |-> 200, success |-> TRUE,
                         isPremium |-> premiumStatus.isPremium,
                         reason |-> premiumStatus.reason,
                         subscriptionActive |-> appStoreStatus.active,
                         expiresDate |-> appStoreStatus.expiresDate ],
          calls    |-> << [call |-> "getUserProfile", error |-> "none"],
                          [call |-> "getActiveSubscriptions",
                           error |-> "none"] >> ]

\* the handler of the request's route, the store accepting every call: the
\* response, the tables afterwards and the store calls made
routeHandler(request, t, rows, profs) ==
    CASE request.route = "validate" ->
           LET r == validateReceipt(request.body[1], t, rows, profs,
                                    AllAccepted)
           IN  [ status |-> 200, subscriptions |-> r.subscriptions,
                 profiles |-> r.profiles, calls |-> r.calls ]
      [] request.route = "status" ->
           [ status |-> 200, subscriptions |-> rows, profiles |-> profs,
             calls |-> getStatus(request.userId, t, rows, profs, AllAccepted,
                                 NoHistory).calls ]
      [] request.route = "history" ->
           [ status |-> 200, subscriptions |-> rows, profiles |-> profs,
             calls |-> << [call |-> "getActiveSubscriptions",
                           error |-> "none"] >> ]
      [] request.route = "sync" ->
           LET r == postSync(request.userId, t, rows, profs, AllAccepted,
                             NoHistory)
           IN  [ status |-> 200, subscriptions |-> rows,
                 profiles |-> r.profiles, calls |-> r.calls ]
      [] request.route = "premium" ->
           [ status |-> 200, subscriptions |-> rows, profiles |-> profs,
             calls |-> getPremium(request.userId, profs, AllAccepted).calls ]

\* what the application does with a request to /api/subscriptions: the rate
\* limiter, then authenticateAPI, then the handler of the route
subscriptionRoutes(request, limiter, t, rows, profs) ==
    IF ~limiter.next
    THEN [ status |-> tooManyRequests.status, handled |-> FALSE,
           subscriptions |-> rows, profiles |-> profs, calls |-> << >> ]
    ELSE IF ~authenticateAPI(request.apiKey)
    THEN [ status |-> unauthorized.status, handled |-> FALSE,
           subscriptions |-> rows, profiles |-> profs, calls |-> << >> ]
    ELSE LET r == routeHandler(request, t, rows, profs)
         IN  [ status |-> r.status, handled |-> TRUE,
               subscriptions |-> r.subscriptions, profiles |-> r.profiles,
               calls |-> r.calls ]

\* a request to a route of /api/subscriptions, handled to its response
SubscriptionsRequest(request) ==
    /\ \E limiter \in {simpleRateLimit(maxRequests, windowMs, rateLimitByIP,
                                        "ip-1", now)} :
       \E r \in {subscriptionRoutes(request, limiter, now, subscriptions,
                                    profiles)} :
           /\ rateLimitByIP' = limiter.entries
           /\ subscriptions' = r.subscriptions
           /\ profiles' = r.profiles
           /\ last' = [ op       |-> "subscriptions",
                        request  |-> request,
                        limited  |-> ~limiter.next,
                        handled  |-> r.handled,
                        calls    |-> r.calls,
                        response |-> [status |-> r.status] ]
    /\ pre' = Tables
    /\ UNCHANGED <<now, inflight, storeTime>>

NextAuth ==
    \E request \in SubscriptionRequests : SubscriptionsRequest(request)

SpecAuth == Init /\ [][NextAuth]_vars

---------------------------------------------------------------------------
(* Purchases, notifications, syncs and premium reads on profiles that      *)
(* start with any flags, to see which profile each operation touches.      *)

NextFrame ==
    \/ \E request \in DeliveryRequests : ValidateReceipt(request)
    \/ \E body \in DeliveryBodies : PostApple(body)
    \/ \E userId \in Users : Sync(userId)
    \/ \E userId \in Users : GetPremium(userId)
    \/ Reply

SpecFrame == InitPremium /\ [][NextFrame]_vars

---------------------------------------------------------------------------
(* Notifications with the Discord message each handler sends last: the      *)
(* fetch to the Discord webhook succeeds, answers a non-OK status or        *)
(* throws.                                                                  *)

DiscordOutcomes == {"ok", "not-ok", "threw"}

\* the notification types whose handler sends a Discord message
NotifiedTypes ==
    { "SUBSCRIBED", "DID_RENEW", "EXPIRED", "DID_FAIL_TO_RENEW",
      "DID_CHANGE_RENEWAL_STATUS", "REFUND" }

\* (variant) sendAppStoreNotification without its try/catch
sendAppStoreNotificationUncaught(outcome) == [threw |-> outcome = "threw"]

\* discordService.sendAppStoreNotification(data), the fetch ending in
\* `outcome`: a non-OK status is logged, an exception is caught and logged
sendAppStoreNotification(outcome) == [threw |-> FALSE]

\* router.post("/apple") with the Discord message: the handler awaits its
\* store calls and then the message, whose exception would end
\* processNotification in its catch, after the store calls were made
postAppleNotifying(body, rows, profs, db, outcome) ==
    LET r == postApple(body, rows, profs, db)
        sends ==
            /\ r.response.success
            /\ body.signedPayload.chars[1].payload.notificationType
                  \in NotifiedTypes
        names == [i \in DOMAIN r.calls |-> r.calls[i].call]
    IN  [ response |->
              IF sends /\ sendAppStoreNotification(outcome).threw
              THEN [status |-> webhookStatus(FALSE), success |-> FALSE]
              ELSE r.response,
          processed     |-> r.processed,
          subscriptions |-> r.subscriptions,
          profiles      |-> r.profiles,
          calls         |-> r.calls,
          events        |-> IF sends
                            THEN names \o <<"sendAppStoreNotification">>
                            ELSE names ]

\* a POST /api/webhooks/apple request, handled to its response, with the
\* outcome of the Discord message
PostAppleNotifying(body) ==
    /\ last = Idle
    /\ \E outcome \in DiscordOutcomes :
       \E names \in {CallNames(postApple(body, subscriptions, profiles,
                                         AllAccepted).calls)} :
       \E db \in OutcomesOf(names) :
       \E r \in {postAppleNotifying(body, subscriptions, profiles, db,
                                    outcome)} :
       \E quiet \in {postAppleNotifying(body, subscriptions, profiles, db,
                                        "ok")} :
           /\ subscriptions' = r.subscriptions
           /\ profiles' = r.profiles
           /\ last' = [ op        |-> "postApple",
                        request   |-> body,
                        processed |-> r.processed,
                        calls     |-> r.calls,
                        response  |-> r.response,
                        discord   |-> outcome,
                        events    |-> r.events,
                        delivered |-> [ response      |-> quiet.response,
                                        subscriptions |-> quiet.subscriptions,
                                        profiles      |-> quiet.profiles ] ]
    /\ pre' = Tables
    /\ UNCHANGED <<now, inflight, storeTime, rateLimitByIP>>

NextDiscord ==
    \/ \E request \in DeliveryRequests : ValidateReceipt(request)
    \/ \E body \in DeliveryBodies : PostAppleNotifying(body)
    \/ Reply

SpecDiscord == Init /\ [][NextDiscord]_vars

---------------------------------------------------------------------------
(* The status of a user read from the platform: the platform answers, for  *)
(* each transaction id, with the history of that subscription in the order *)
(* the request asks for (sort: Order.ASCENDING, oldest first).             *)

\* the signed transaction of the subscription `transactionId` for the period
\* that ends at `expires`
period(transactionId, expires) ==
    [ sigOK   |-> TRUE,
      payload |-> [ originalTransactionId |-> transactionId,
                    productId             |-> "com.comms.comms.premium_monthly",
                    expiresDate           |-> <<expires>>,
                    appAccountToken       |-> "user-A" ] ]

\* what getTransactionHistory answers for a subscription: an exception, its
\* first period alone, or the first period followed by its renewal
historiesOf(transactionId) ==
    { [threw |-> TRUE, signedTransactions |-> <<>>],
      [threw |-> FALSE,
       signedTransactions |-> <<period(transactionId, 1)>>],
      [threw |-> FALSE,
       signedTransactions |-> <<period(transactionId, 1),
                                period(transactionId, MaxTime)>>] }

\* the platform: the history it answers with for each transaction id
Platforms ==
    { platform \in [TxIds -> UNION {historiesOf(x) : x \in TxIds}] :
        \A x \in TxIds : platform[x] \in historiesOf(x) }

\* a GET /api/subscriptions/status/:userId request, handled to its response;
\* the platform is asked about the first of the user's rows, if there is one
GetStatus(userId) ==
    /\ last = Idle
    /\ \E platform \in Platforms :
       \E data \in orderDescending(
                     getActiveSubscriptions(subscriptions, userId, TRUE)) :
       \E r \in {getStatus(userId, now, subscriptions, profiles, AllAccepted,
                           IF data = << >> THEN NoHistory
                           ELSE platform[data[1].transaction_id])} :
           last' = [ op       |-> "getStatus",
                     request  |-> [userId |-> userId, platform |-> platform],
                     time     |-> now,
                     asked    |-> IF data = << >> THEN << >>
                                  ELSE <<data[1].transaction_id>>,
                     calls    |-> r.calls,
                     response |-> r.response ]
    /\ pre' = Tables
    /\ UNCHANGED <<now, subscriptions, profiles, inflight, storeTime,
                   rateLimitByIP>>

NextStatus ==
    \/ Tick
    \/ TickStore
    \/ \E request \in PurchaseRequests : ValidateReceipt(request)
    \/ \E userId \in Users : GetStatus(userId)
    \/ Reply

SpecStatus == Init /\ [][NextStatus]_vars

---------------------------------------------------------------------------
(* What the last request was, read from `last` *)

Validated == last.op = "validateReceipt"

\* the last request was a validateReceipt whose token is a JWS
ValidatedToken == Validated /\ last.request.purchaseToken # <<>>

\* ... whose signature verifies
ValidatedSigned == ValidatedToken /\ last.request.purchaseToken[1].sigOK

\* the transaction that token carries
LastTransaction == last.request.purchaseToken[1].payload

\* ... and whose appAccountToken is the requesting user
ValidatedOwned ==
    ValidatedSigned /\ LastTransaction.appAccountToken = last.request.userId

\* the activity rule of the specification, at the validation time
RuleActive ==
    /\ LastTransaction.productId \in SUBSCRIPTION_PRODUCTS
    /\ \/ LastTransaction.expiresDate = <<>>
       \/ LastTransaction.expiresDate[1] > last.time

\* the handler left both tables as they were
StoreUnchanged ==
    subscriptions = pre.subscriptions /\ profiles = pre.profiles

\* the handler made no writing store call
NoWriteCalls ==
    \A i \in DOMAIN last.calls :
        last.calls[i].call = "getSubscriptionByTransactionId"

\* the store accepted every call the handler made
CallsAccepted ==
    \A i \in DOMAIN last.calls : last.calls[i].error = "none"

RowsOf(rows, transactionId) ==
    {r \in rows : r.transaction_id = transactionId}

Webhook == last.op = "postApple"

\* the last request was a webhook whose signedPayload is a JWS
WebhookJws ==
    /\ Webhook
    /\ last.request.signedPayload.type = "string"
    /\ last.request.signedPayload.chars # <<>>

LastEnvelope == last.request.signedPayload.chars[1]

\* ... whose envelope verifies and embeds a signed transaction
WebhookEmbeds ==
    /\ WebhookJws
    /\ LastEnvelope.sigOK
    /\ LastEnvelope.payload.signedTransactionInfo # <<>>

LastEmbedded == LastEnvelope.payload.signedTransactionInfo[1]

\* ... and the embedded transaction verifies too
WebhookVerified == WebhookEmbeds /\ LastEmbedded.sigOK

\* ... but no stored record has its originalTransactionId
WebhookUnattributable ==
    /\ WebhookVerified
    /\ RowsOf(pre.subscriptions,
              LastEmbedded.payload.originalTransactionId) = {}

\* ... and a stored record has its originalTransactionId, the lookup answered
WebhookRecorded ==
    /\ WebhookVerified
    /\ RowsOf(pre.subscriptions,
              LastEmbedded.payload.originalTransactionId) # {}
    /\ last.calls # << >>
    /\ last.calls[1].error = "none"

LastType == LastEnvelope.payload.notificationType

\* the user_id on the stored record of the notification's transaction
LastOwner ==
    (CHOOSE r \in RowsOf(pre.subscriptions,
                         LastEmbedded.payload.originalTransactionId) : TRUE)
        .user_id

\* a notification of the given types for a recorded transaction was
\* dispatched and the store accepted every call
Dispatched(types) ==
    WebhookRecorded /\ LastType \in types /\ CallsAccepted

---------------------------------------------------------------------------
(* Claims *)

\* C1. Ownership enforcement: a validly signed transaction whose
\* appAccountToken differs from the requesting userId makes validateReceipt
\* fail with the ownership error, and the store is not touched: no store call,
\* no record, no profile flag changed.
OwnershipEnforcement ==
    (ValidatedSigned /\ LastTransaction.appAccountToken # last.request.userId)
        => /\ last.response.success = FALSE
           /\ last.response.subscriptionActive = FALSE
           /\ last.response.error = "Transaction does not belong to this user"
           /\ last.calls = << >>
           /\ StoreUnchanged

\* a foreign, otherwise active transaction with an id was refused
OwnershipMismatchRefused ==
    /\ ValidatedSigned
    /\ LastTransaction.appAccountToken = "user-A"
    /\ last.request.userId = "user-B"
    /\ RuleActive
    /\ LastTransaction.originalTransactionId \in TxIds
    /\ last.response.success = FALSE

\* C2. Idempotent upsert: validating an owned, active transaction whose
\* originalTransactionId is already stored for the same user leaves exactly
\* one record with that transaction_id, raises no uniqueness error and
\* succeeds.
IdempotentUpsert ==
    ( /\ ValidatedOwned
      /\ RuleActive
      /\ \E r \in RowsOf(pre.subscriptions,
                          LastTransaction.originalTransactionId) :
             r.user_id = last.request.userId )
        => /\ Cardinality(RowsOf(subscriptions,
                                 LastTransaction.originalTransactionId)) = 1
           /\ \A i \in DOMAIN last.calls : last.calls[i].error # "23505"
           /\ last.response.success

\* the same transaction was validated again and the store accepted the upsert
ValidatedTwice ==
    /\ ValidatedOwned
    /\ RuleActive
    /\ \E r \in RowsOf(pre.subscriptions,
                        LastTransaction.originalTransactionId) :
           r.user_id = last.request.userId
    /\ last.calls # << >>
    /\ CallsAccepted
    /\ last.response.success

\* C3. Activity rule: the activity validateReceipt computes is true exactly
\* when the productId is a recognized subscription product and the
\* expiresDate is absent or strictly later than the validation time.
ActivityRule ==
    ValidatedOwned
        => /\ last.response.success
           /\ last.response.subscriptionActive = RuleActive

\* expiresDate one unit after the validation time was found active
ExpiresNextUnitActive ==
    /\ ValidatedOwned
    /\ LastTransaction.expiresDate = <<last.time + 1>>
    /\ last.response.subscriptionActive

\* C4. validateReceipt never persists an inactive transaction: when the
\* computed activity is false the store is not touched, and the response
\* still carries the activity (false) and the expiry.
InactiveNeverPersisted ==
    (ValidatedOwned /\ ~last.response.subscriptionActive)
        => /\ last.response.success
           /\ last.calls = << >>
           /\ StoreUnchanged
           /\ last.response.expiresDate =
                 IF LastTransaction.expiresDate = <<>>
                 THEN <<>>
                 ELSE <<toISOString(LastTransaction.expiresDate[1])>>

\* an expired transaction with an id was validated and reported inactive
ExpiredReportedInactive ==
    /\ ValidatedOwned
    /\ LastTransaction.productId \in SUBSCRIPTION_PRODUCTS
    /\ LastTransaction.originalTransactionId \in TxIds
    /\ LastTransaction.expiresDate # <<>>
    /\ last.response.success
    /\ ~last.response.subscriptionActive
    /\ last.response.expiresDate # <<>>

\* the record and the flags C5 speaks of
RecordAndFlagsSet ==
    /\ \E r \in RowsOf(subscriptions, LastTransaction.originalTransactionId) :
           r.user_id = last.request.userId
    /\ profiles[last.request.userId].subscribed
    /\ profiles[last.request.userId].has_purchased_subscription_before

SignatureFailureFails ==
    (ValidatedToken /\ ~last.request.purchaseToken[1].sigOK)
        => /\ last.response.success = FALSE
           /\ last.calls = << >>
           /\ StoreUnchanged

\* a forged token for the requesting user was refused
ForgedTokenRefused ==
    /\ ValidatedToken
    /\ ~last.request.purchaseToken[1].sigOK
    /\ LastTransaction.appAccountToken = last.request.userId
    /\ last.response.success = FALSE

\* C7. When the notification envelope or its embedded signed transaction
\* fails verification, the webhook reports failure and the store is not
\* touched.
UnverifiedNotificationRejected ==
    (WebhookJws /\ (~LastEnvelope.sigOK \/ (WebhookEmbeds /\ ~LastEmbedded.sigOK)))
        => /\ last.response.success = FALSE
           /\ last.calls = << >>
           /\ StoreUnchanged

\* a forged envelope about a recorded transaction was rejected
ForgedEnvelopeRejected ==
    /\ WebhookJws
    /\ ~LastEnvelope.sigOK
    /\ LastEnvelope.payload.notificationType = "EXPIRED"
    /\ \E r \in RowsOf(pre.subscriptions,
          LastEnvelope.payload.signedTransactionInfo[1].payload
              .originalTransactionId) : pre.profiles[r.user_id].subscribed
    /\ last.response.success = FALSE

\* C8. Unattributable notification: whatever its type, a verified
\* notification whose originalTransactionId has no stored record is reported
\* as a processing failure and causes no store mutation.
UnattributableRejected ==
    WebhookUnattributable
        => /\ last.response.success = FALSE
           /\ NoWriteCalls
           /\ StoreUnchanged

\* a DID_RENEW for an unrecorded transaction was rejected while another
\* transaction was on record
UnrecordedRenewalRejected ==
    /\ WebhookUnattributable
    /\ LastEnvelope.payload.notificationType = "DID_RENEW"
    /\ LastEmbedded.payload.originalTransactionId \in TxIds
    /\ pre.subscriptions # {}
    /\ CallsAccepted
    /\ last.response.success = FALSE

\* C9. The Apple webhook answers 200 with success:true whenever a
\* notification about a subscription transaction was processed (it verified
\* and the store answered), the reject of a notification that no stored
\* record attributes included.
ProcessedAnswered200 ==
    ( /\ WebhookVerified
      /\ LastEmbedded.payload.originalTransactionId \in TxIds
      /\ LastEmbedded.payload.productId \in SUBSCRIPTION_PRODUCTS
      /\ CallsAccepted )
        => last.response.status = 200 /\ last.response.success

\* C10. The Apple webhook answers 400 for a malformed envelope
\* (signedPayload absent or not a string) without processing it and without
\* touching the store.
MalformedEnvelope400 ==
    (Webhook /\ last.request.signedPayload.type # "string")
        => /\ last.response.status = 400
           /\ ~last.processed
           /\ last.calls = << >>
           /\ StoreUnchanged

\* a non-string signedPayload was answered 400
NonStringPayloadRefused ==
    /\ Webhook
    /\ last.request.signedPayload.type = "number"
    /\ last.response.status = 400

\* C11. Dispatch SUBSCRIBED: a SUBSCRIBED notification for a recorded
\* transaction, the store accepting the calls, sets the owning user's
\* subscribed and has_purchased_subscription_before to true, leaves the
\* records as they were and reports success.
DispatchSubscribed ==
    Dispatched({"SUBSCRIBED"})
        => /\ profiles[LastOwner].subscribed
           /\ profiles[LastOwner].has_purchased_subscription_before
           /\ subscriptions = pre.subscriptions
           /\ last.response.success

\* SUBSCRIBED arrived for a user with a record and neither flag set
SubscribedSetBothFlags ==
    /\ Dispatched({"SUBSCRIBED"})
    /\ ~pre.profiles[LastOwner].subscribed
    /\ ~pre.profiles[LastOwner].has_purchased_subscription_before
    /\ profiles[LastOwner].subscribed
    /\ profiles[LastOwner].has_purchased_subscription_before

\* C12. Dispatch DID_RENEW: a DID_RENEW notification for a recorded
\* transaction (of a subscription product, the store accepting the calls)
\* leaves the store with exactly one record more than before and sets the
\* owning user's subscribed to true.
RenewalAddsRecord ==
    ( /\ Dispatched({"DID_RENEW"})
      /\ LastEmbedded.payload.productId \in SUBSCRIPTION_PRODUCTS )
        => /\ Cardinality(subscriptions) = Cardinality(pre.subscriptions) + 1
           /\ profiles[LastOwner].subscribed

\* C13. Redelivery safety: when the same DID_RENEW notification for a
\* recorded transaction is delivered k times in a row (k = 2, 3), the store
\* accepting the calls, the records after the k-th delivery are the records
\* the first delivery left, and the owning user's subscribed is true after
\* the first and after the k-th delivery.
RedeliverySafe ==
    (Dispatched({"DID_RENEW"}) /\ Streak >= 2 /\ last.accepted)
        => /\ subscriptions = last.first.subscriptions
           /\ last.first.profiles[LastOwner].subscribed
           /\ profiles[LastOwner].subscribed

\* the same DID_RENEW was delivered three times in a row
RenewalDeliveredThrice ==
    /\ Dispatched({"DID_RENEW"})
    /\ Streak = 3
    /\ last.accepted
    /\ Cardinality(subscriptions) = 1
    /\ profiles[LastOwner].subscribed

\* C14. Dispatch EXPIRED, DID_FAIL_TO_RENEW and REFUND: each of them, for a
\* recorded transaction and the store accepting the calls, sets the owning
\* user's subscribed to false, leaves the records and the user's
\* has_purchased_subscription_before as they were, and reports success.
DispatchDeactivates ==
    Dispatched({"EXPIRED", "DID_FAIL_TO_RENEW", "REFUND"})
        => /\ ~profiles[LastOwner].subscribed
           /\ subscriptions = pre.subscriptions
           /\ profiles[LastOwner].has_purchased_subscription_before
                 = pre.profiles[LastOwner].has_purchased_subscription_before
           /\ last.response.success

\* a subscriber who had purchased before was refunded
RefundDeactivated ==
    /\ Dispatched({"REFUND"})
    /\ pre.profiles[LastOwner].subscribed
    /\ pre.profiles[LastOwner].has_purchased_subscription_before
    /\ ~profiles[LastOwner].subscribed
    /\ profiles[LastOwner].has_purchased_subscription_before

\* C15. Dispatch DID_CHANGE_RENEWAL_STATUS: for a recorded transaction it
\* is informational only: no writing store call is made, every record and
\* every profile flag is as before, and success is reported.
RenewalStatusInformational ==
    (WebhookRecorded /\ LastType = "DID_CHANGE_RENEWAL_STATUS")
        => /\ NoWriteCalls
           /\ StoreUnchanged
           /\ last.response.success

\* a subscriber's renewal status changed
RenewalStatusOfSubscriber ==
    /\ WebhookRecorded
    /\ LastType = "DID_CHANGE_RENEWAL_STATUS"
    /\ pre.profiles[LastOwner].subscribed
    /\ profiles[LastOwner].subscribed
    /\ last.response.success

\* the notification types the switch has a case for
RecognizedTypes ==
    { "SUBSCRIBED", "DID_RENEW", "EXPIRED", "DID_FAIL_TO_RENEW",
      "DID_CHANGE_RENEWAL_STATUS", "REFUND" }

\* C16. A notification of an unrecognized notificationType for a recorded
\* transaction makes no writing store call, changes no record and no flag,
\* and still reports success.
UnrecognizedTypeNoOp ==
    (WebhookRecorded /\ LastType \notin RecognizedTypes)
        => /\ NoWriteCalls
           /\ StoreUnchanged
           /\ last.response.success

\* DID_CHANGE_RENEWAL_PREF arrived for a subscriber's transaction
UnrecognizedTypeOfSubscriber ==
    /\ WebhookRecorded
    /\ LastType = "DID_CHANGE_RENEWAL_PREF"
    /\ pre.profiles[LastOwner].subscribed
    /\ profiles[LastOwner].subscribed
    /\ last.response.success

\* the last request was a manual sync
Synced == last.op = "postSync"

\* C17. has_purchased_subscription_before is monotonic: no validate call,
\* notification of any type, manual sync or premium read takes a user's flag
\* from true to false.
EverPurchasedMonotonic ==
    [][ \A u \in Users :
            profiles[u].has_purchased_subscription_before
                => profiles'[u].has_purchased_subscription_before ]_vars

\* a manual sync deactivated a subscriber who had purchased before
SyncDeactivatedPurchaser ==
    /\ Synced
    /\ CallsAccepted
    /\ pre.profiles[last.request.userId].subscribed
    /\ pre.profiles[last.request.userId].has_purchased_subscription_before
    /\ ~profiles[last.request.userId].subscribed
    /\ profiles[last.request.userId].has_purchased_subscription_before

\* the last request was a premium read
PremiumRead == last.op = "getPremium"

\* C19. Premium precedence: a premium read that the store answers resolves
\* a missing profile to not premium with reason "User profile not found",
\* one_time_unlock = true (whatever subscribed is) to premium with reason
\* "One-time unlock", otherwise subscribed = true to premium with reason
\* "Active subscription", and both false to not premium; it changes nothing.
PremiumPrecedence ==
    (PremiumRead /\ CallsAccepted)
        => LET u == last.request.userId
               answer == last.response
           IN  /\ StoreUnchanged
               /\ IF u \notin DOMAIN profiles
                  THEN /\ ~answer.isPremium
                       /\ answer.reason = "User profile not found"
                  ELSE IF profiles[u].one_time_unlock
                  THEN /\ answer.isPremium
                       /\ answer.reason = "One-time unlock"
                  ELSE IF profiles[u].subscribed
                  THEN /\ answer.isPremium
                       /\ answer.reason = "Active subscription"
                  ELSE /\ ~answer.isPremium
                       /\ answer.reason = "No active premium access"

\* a subscriber who also holds the one-time unlock asked
UnlockedSubscriberRead ==
    /\ PremiumRead
    /\ CallsAccepted
    /\ last.request.userId \in DOMAIN profiles
    /\ profiles[last.request.userId].one_time_unlock
    /\ profiles[last.request.userId].subscribed
    /\ last.response.isPremium
    /\ last.response.reason = "One-time unlock"

\* C18. Last-write-wins ordering: as entitlement events are processed one
\* after another (the store accepting the calls), the owning user's
\* subscribed after each event is what the event's type dictates, whatever
\* it was before: true after a validate of an active transaction with an
\* originalTransactionId and after SUBSCRIBED and DID_RENEW, false after
\* EXPIRED, DID_FAIL_TO_RENEW and REFUND, and the previous value after any
\* other type.
LastWriteWins ==
    /\ ( /\ ValidatedOwned
         /\ RuleActive
         /\ TruthyStr(LastTransaction.originalTransactionId)
         /\ CallsAccepted )
           => profiles[last.request.userId].subscribed
    /\ Dispatched({"SUBSCRIBED", "DID_RENEW"})
           => profiles[LastOwner].subscribed
    /\ Dispatched({"EXPIRED", "DID_FAIL_TO_RENEW", "REFUND"})
           => ~profiles[LastOwner].subscribed
    /\ Dispatched(NotificationTypes \ { "SUBSCRIBED", "DID_RENEW", "EXPIRED",
                                        "DID_FAIL_TO_RENEW", "REFUND" })
           => profiles[LastOwner].subscribed
                 = pre.profiles[LastOwner].subscribed

\* an EXPIRED was delivered right after a SUBSCRIBED for the same
\* transaction had activated the user, and deactivated them
ExpiredAfterSubscribed ==
    /\ Dispatched({"EXPIRED"})
    /\ "previous" \in DOMAIN last
    /\ last.previous.request.signedPayload.chars[1].payload.notificationType
          = "SUBSCRIBED"
    /\ last.previous.request.signedPayload.chars[1].payload
          .signedTransactionInfo = LastEnvelope.payload.signedTransactionInfo
    /\ Len(last.previous.calls) = 3
    /\ \A i \in DOMAIN last.previous.calls :
           last.previous.calls[i].error = "none"
    /\ pre.profiles[LastOwner].subscribed
    /\ ~profiles[LastOwner].subscribed

\* the requests in progress that have made their record upsert for
\* transactionId as userId and have calls left
UpsertedBy(transactionId, userId) ==
    { p \in BagToSet(inflight) :
        /\ p.validation # <<>>
        /\ p.validation[1].userId = userId
        /\ p.validation[1].purchaseToken[1].payload.originalTransactionId
              = transactionId
        /\ Len(p.todo) = 2 }

\* C20. Under every interleaving of the store calls of concurrently
\* executing validate calls and webhook deliveries, every reachable store
\* state holds at most one record per transaction_id.
OneRecordPerTransaction ==
    \A r1 \in subscriptions : \A r2 \in subscriptions :
        r1.transaction_id = r2.transaction_id => r1 = r2

\* two validate calls of different users for the same transaction are both
\* past their upsert, and one record is there
TwoUpsertsOneRecord ==
    /\ UpsertedBy("t1", "user-A") # {}
    /\ UpsertedBy("t1", "user-B") # {}
    /\ Cardinality(RowsOf(subscriptions, "t1")) = 1

\* both deliveries of the notification delivered twice have returned
BothDelivered == last.op = "postAppleTwice" /\ inflight = EmptyBag

\* the owner of the transaction the twice-delivered notification is about
TwiceOwner ==
    (CHOOSE r \in RowsOf(pre.subscriptions, "t1") : TRUE).user_id

\* C21. Two concurrent deliveries of the same notification for a recorded
\* transaction end, under every interleaving of their store calls, in the
\* store state that a single delivery of that notification leaves.
TwoDeliveriesAsOne ==
    (BothDelivered /\ RowsOf(pre.subscriptions, "t1") # {})
        => Tables = last.expected

\* a DID_RENEW delivered twice at the same time activated the owner and
\* rewrote the record
RenewalDeliveredTwice ==
    /\ BothDelivered
    /\ RowsOf(pre.subscriptions, "t1") # {}
    /\ last.request.signedPayload.chars[1].payload.notificationType
          = "DID_RENEW"
    /\ ~pre.profiles[TwiceOwner].subscribed
    /\ profiles[TwiceOwner].subscribed
    /\ subscriptions # pre.subscriptions
    /\ Tables = last.expected

\* the abandoned request's second run has returned
RetriedToCompletion ==
    /\ last.op = "abandonable"
    /\ last.abandoned # << >>
    /\ inflight = EmptyBag

\* C22. Abandon-and-retry convergence: when a validate or webhook request
\* is abandoned after any prefix of its store calls and the same request is
\* then run to completion, the store is in the state one uninterrupted run
\* of the request leaves.
AbandonRetryConverges ==
    RetriedToCompletion => Tables = last.expected

\* a first purchase was abandoned after its record upsert, before the flag
\* updates, and sent again
PurchaseAbandonedAfterUpsert ==
    /\ RetriedToCompletion
    /\ last.fresh.validation # << >>
    /\ Len(last.abandoned[1]) = 2
    /\ pre.subscriptions = {}
    /\ Cardinality(subscriptions) = 1
    /\ profiles[last.fresh.validation[1].userId].subscribed
    /\ Tables = last.expected

\* the error the store gave the named call of the last request ("none" when
\* the call was accepted or not made)
ErrorOf(name) ==
    IF \E i \in DOMAIN last.calls :
           last.calls[i].call = name /\ last.calls[i].error # "none"
    THEN "unavailable"
    ELSE "none"

\* validate of an active transaction whose record upsert the store accepted
\* and one of whose flag updates it refused
FlagUpdateRefused ==
    /\ ValidatedOwned
    /\ RuleActive
    /\ last.calls # << >>
    /\ ErrorOf("insertSubscriptionRecord") = "none"
    /\ \/ ErrorOf("updateUserSubscriptionStatus") # "none"
       \/ ErrorOf("setHasPurchasedSubscriptionBefore") # "none"

\* C23. Degraded success: when validate of an active transaction has its
\* record upsert accepted and a dependent flag update refused, its result
\* differs from the result of the same validate with every call accepted.
DegradedSuccessDistinguishable ==
    FlagUpdateRefused
        => last.response
             # validateReceipt(last.request, last.time, pre.subscriptions,
                               pre.profiles, AllAccepted).response

\* a store write of a dispatched notification was refused
NotificationWriteRefused ==
    /\ WebhookRecorded
    /\ LastType \in RecognizedTypes
    /\ \E i \in DOMAIN last.calls :
           /\ i > 1
           /\ last.calls[i].error # "none"

\* C24. Store errors propagate: when a store write fails while a
\* notification's effect is applied, processing reports failure to its caller.
NotificationStoreErrorPropagates ==
    NotificationWriteRefused => ~last.response.success

\* the platform call or the verification of its answer failed while the
\* status of a user with a record was computed
SyncVerificationFailed ==
    /\ Synced
    /\ CallsAccepted
    /\ \E r \in pre.subscriptions : r.user_id = last.request.userId
    /\ \/ last.request.history.threw
       \/ /\ last.request.history.signedTransactions # << >>
          /\ ~last.request.history.signedTransactions[1].sigOK

\* C25. A verification failure is never treated as "not a subscriber": a
\* manual sync during which the platform call or the signature verification
\* fails does not answer active = false as a success and does not write
\* subscribed = false.
VerificationFailureNotInactive ==
    (SyncVerificationFailed /\ pre.profiles[last.request.userId].subscribed)
        => /\ profiles[last.request.userId].subscribed
           /\ ~(last.response.success /\ ~last.response.subscriptionActive)

\* the fields of a ValidationResponse
ValidationResponseFields ==
    {"success", "subscriptionActive", "transactionId", "expiresDate", "error"}

\* C26. No core operation throws across the component boundary: whatever the
\* verifier and the store do (decode failure, store error, thrown exception),
\* validateReceipt returns a ValidationResponse, handleWebhookNotification
\* returns a boolean, and every store operation returns its error.
NoExceptionEscapes ==
    /\ Validated =>
          /\ DOMAIN last.response = ValidationResponseFields
          /\ last.response.success \in BOOLEAN
    /\ Webhook =>
          /\ "success" \in DOMAIN last.response
          /\ last.response.success \in BOOLEAN
    /\ last.op \in {"validateReceipt", "postApple", "postSync", "getPremium"}
          => \A i \in DOMAIN last.calls :
                 last.calls[i].error \in {"none", "unavailable"}

\* the verifier threw in a validateReceipt and the caller got a failure value
VerifierThrewInValidate ==
    /\ ValidatedToken
    /\ ~last.request.purchaseToken[1].sigOK
    /\ DOMAIN last.response = ValidationResponseFields
    /\ ~last.response.success

\* C27. The expired flag is maintained by webhook processing: after an
\* EXPIRED or DID_FAIL_TO_RENEW notification for a recorded transaction has
\* been processed, that record's expired flag is true.
ExpiredFlagMaintained ==
    Dispatched({"EXPIRED", "DID_FAIL_TO_RENEW"})
        => \A r \in RowsOf(subscriptions,
                           LastEmbedded.payload.originalTransactionId) :
               r.expired

HistoryRead == last.op = "getHistory"

\* the stored rows of the user whose history was read
HistoryRows ==
    {r \in pre.subscriptions : r.user_id = last.request.userId}

\* C28. The subscription history of a user, when the store answers, lists
\* exactly the stored records whose user_id is that user, each once, ordered
\* most-recent-first by creation time, after any sequence of validate calls
\* and notifications.
HistoryMostRecentFirst ==
    (HistoryRead /\ CallsAccepted) =>
        LET list == last.response.subscriptions IN
        /\ Len(list) = Cardinality(HistoryRows)
        /\ \A r \in HistoryRows :
               \E i \in DOMAIN list :
                   list[i] = [ productId     |-> r.product_id,
                               transactionId |-> r.transaction_id,
                               createdAt     |-> r.created_at ]
        /\ \A i, j \in DOMAIN list :
               i < j => list[i].createdAt >= list[j].createdAt
        /\ StoreUnchanged

\* a user with two records of different age got the younger record first
TwoPurchasesListed ==
    /\ HistoryRead
    /\ CallsAccepted
    /\ Len(last.response.subscriptions) = 2
    /\ last.response.subscriptions[1].createdAt
         > last.response.subscriptions[2].createdAt

Requested == last.op = "request"

\* the last request came inside the window of its address
InsideWindow ==
    /\ last.before[last.ip] # << >>
    /\ last.time <= last.before[last.ip][1].start + windowMs

\* C30. Rate limiting: for every client IP at most maxRequests requests are
\* passed on within one window of windowMs that starts at that IP's first
\* counted request, and every further request from that IP inside the window
\* is answered 429 and not passed on.
RateLimited ==
    Requested =>
        /\ \A ip \in ClientIPs :
               last.windows[ip] # << >>
                   => last.windows[ip][1].passed <= maxRequests
        /\ (InsideWindow /\ last.before[last.ip][1].passed >= maxRequests)
               => /\ ~last.passedOn
                  /\ last.response.status = 429

\* the request that followed the hundredth of its window, at the last
\* millisecond of the window, was answered 429 while the other address was
\* still served
HundredAndFirstRefused ==
    /\ Requested
    /\ InsideWindow
    /\ last.before[last.ip][1].passed = maxRequests
    /\ last.time = last.before[last.ip][1].start + windowMs
    /\ last.response.status = 429
    /\ \E ip \in ClientIPs \ {last.ip} :
           /\ last.windows[ip] # << >>
           /\ last.windows[ip][1].passed < maxRequests

\* the last request went to /api/subscriptions without the configured key
KeyMissingOrWrong ==
    /\ last.op = "subscriptions"
    /\ last.request.apiKey # configuredApiKey

ActiveResponseBacked ==
    (Validated /\ last.response.success /\ last.response.subscriptionActive)
        => /\ RowsOf(subscriptions,
                     LastTransaction.originalTransactionId) # {}
           /\ profiles[last.request.userId].subscribed

\* C32. Record ownership is stable: no validate call and no notification
\* changes the user_id of a stored record to a different user.
RecordOwnershipStable ==
    (Validated \/ Webhook)
        => \A before \in pre.subscriptions :
               \A after \in RowsOf(subscriptions, before.transaction_id) :
                   after.user_id = before.user_id

\* validate wrote a record
ValidateStored ==
    /\ Validated
    /\ \E i \in DOMAIN last.calls :
           /\ last.calls[i].call = "insertSubscriptionRecord"
           /\ last.calls[i].error = "none"

\* C34. Every SubscriptionRecord written by validate carries the product_id
\* of the verified transaction, a recognized subscription product; a
\* productId of the request that differs from it is never stored.
StoredProductVerified ==
    ValidateStored
        => \A r \in RowsOf(subscriptions,
                           LastTransaction.originalTransactionId) :
               /\ r.product_id = LastTransaction.productId
               /\ r.product_id \in SUBSCRIPTION_PRODUCTS

\* the validate and the revoking notification that overlapped have returned
OverlapFinished == last.op = "overlap" /\ inflight = EmptyBag

\* C33. When an EXPIRED or REFUND notification for a user's recorded
\* transaction has completed and no operation for that user started
\* afterwards, then once every operation in flight has finished the user's
\* subscribed flag is false: an overlapping validate does not overwrite it.
RevocationSurvivesOverlap ==
    OverlapFinished => ~profiles[last.request.userId].subscribed

StatusRead == last.op = "getStatus"

\* the stored rows of the user whose status was read
StatusRows ==
    {r \in pre.subscriptions : r.user_id = last.request.userId}

\* the most recent transaction of the history the platform gave
MostRecent(history) ==
    history.signedTransactions[Len(history.signedTransactions)]

\* C35. getSubscriptionStatus computes active and expiresDate from the most
\* recent transaction in the platform's history for the user's most recently
\* created stored record; for a user with no stored record it returns
\* active = false without calling the platform.
StatusFromMostRecent ==
    StatusRead =>
        IF StatusRows = {}
        THEN ~last.response.subscriptionActive /\ last.asked = << >>
        ELSE /\ last.asked # << >>
             /\ \E r \in StatusRows :
                    /\ r.transaction_id = last.asked[1]
                    /\ \A o \in StatusRows : o.created_at <= r.created_at
             /\ LET history == last.request.platform[last.asked[1]] IN
                ~history.threw =>
                    /\ last.response.subscriptionActive
                         = isSubscriptionActive(MostRecent(history).payload,
                                                last.time)
                    /\ last.response.expiresDate
                         = <<toISOString(
                               MostRecent(history).payload.expiresDate[1])>>

\* C36. Frame of profile writes: a notification changes only the profile of
\* the user_id on the stored record of its originalTransactionId, validate
\* changes only the requesting user's profile, and no operation changes
\* one_time_unlock of any user.
ProfileWritesFramed ==
    /\ Validated =>
          \A u \in Users \ {last.request.userId} :
              profiles[u] = pre.profiles[u]
    /\ Webhook =>
          \A u \in Users :
              \/ profiles[u] = pre.profiles[u]
              \/ WebhookRecorded /\ u = LastOwner
    /\ last.op \in {"validateReceipt", "postApple", "postSync", "getPremium"}
          => \A u \in Users :
                 profiles[u].one_time_unlock = pre.profiles[u].one_time_unlock

\* an EXPIRED notification deactivated the record's owner while the other
\* user, subscribed and unlocked, kept every flag
ExpiredTouchedOwnerOnly ==
    /\ Dispatched({"EXPIRED"})
    /\ pre.profiles[LastOwner].subscribed
    /\ ~profiles[LastOwner].subscribed
    /\ profiles[LastOwner].one_time_unlock
    /\ \E u \in Users \ {LastOwner} :
           /\ profiles[u].subscribed
           /\ profiles[u].one_time_unlock
           /\ profiles[u] = pre.profiles[u]

\* the last request was a notification whose Discord outcome is known
WebhookNotifying == Webhook /\ "discord" \in DOMAIN last

\* C37. The Discord message cannot affect entitlement processing: for every
\* notification type the store mutations and the result of processing are
\* the same whether the Discord delivery succeeds, answers a non-OK status
\* or throws, and the message is sent only after the type's store calls.
DiscordCannotAffect ==
    WebhookNotifying =>
        /\ last.response = last.delivered.response
        /\ subscriptions = last.delivered.subscriptions
        /\ profiles = last.delivered.profiles
        /\ \A i \in DOMAIN last.events :
               last.events[i] = "sendAppStoreNotification"
                   => i = Len(last.events)

\* an EXPIRED notification deactivated the owner and reported success
\* although the Discord fetch threw
ExpiredWhileDiscordThrew ==
    /\ WebhookNotifying
    /\ last.discord = "threw"
    /\ Dispatched({"EXPIRED"})
    /\ last.events[Len(last.events)] = "sendAppStoreNotification"
    /\ pre.profiles[LastOwner].subscribed
    /\ ~profiles[LastOwner].subscribed
    /\ last.response.success

\* C38. Rate-limit window reset: a request answered 429 does not increase
\* its IP's counter; the first request of an IP strictly after its window's
\* resetTime is admitted and starts a new window with count 1; and every
\* request removes the entries of the other IPs whose window has passed.
WindowResets ==
    [][ \A ip \in ClientIPs :
          (last' # last /\ last'.op = "request" /\ last'.ip = ip) =>
            /\ ~last'.passedOn => 
                  /\ rateLimitByIP[ip] # << >>
                  /\ rateLimitByIP'[ip] = rateLimitByIP[ip]
            /\ (rateLimitByIP[ip] # << >>
                  /\ now > rateLimitByIP[ip][1].resetTime) =>
                  /\ last'.passedOn
                  /\ rateLimitByIP'[ip]
                       = <<[count |-> 1, resetTime |-> now + windowMs]>>
            /\ \A other \in ClientIPs \ {ip} :
                  IF rateLimitByIP[other] # << >>
                        /\ now > rateLimitByIP[other][1].resetTime
                  THEN rateLimitByIP'[other] = << >>
                  ELSE rateLimitByIP'[other] = rateLimitByIP[other] ]_vars

\* an address that had used up its window was admitted again after the
\* window had passed, with a count of 1, and the stale entry of the other
\* address was removed
LimitedClientAdmittedAgain ==
    /\ Requested
    /\ last.passedOn
    /\ last.before[last.ip] # << >>
    /\ last.before[last.ip][1].passed = maxRequests
    /\ last.time > last.before[last.ip][1].start + windowMs
    /\ rateLimitByIP[last.ip]
         = <<[count |-> 1, resetTime |-> last.time + windowMs]>>
    /\ \E other \in ClientIPs \ {last.ip} :
           /\ last.before[other] # << >>
           /\ rateLimitByIP[other] = << >>

====
